---- MODULE Spec2Model ----
(***************************************************************************)
(* A model of the datatype-to-AIR encoder of vir                           *)
(* (source/vir/src/datatype_to_air.rs).  One behaviour is one call of      *)
(* datatypes_and_primitives_to_air: Init draws the immutable input (the    *)
(* context, the datatypes and the specialization table), each action is    *)
(* one iteration of one of the orchestrator's loops, and Merge builds the  *)
(* returned command stream out of the six buckets.                         *)
(*                                                                         *)
(* Identifiers and paths are sequences of strings, AIR expressions are     *)
(* tagged tuples, commands are records [kind, name, sig, body].            *)
(***************************************************************************)
EXTENDS Integers, Sequences, FiniteSets, TLC

\* Bounds of the model.
MaxArity == 1
MaxSpecs == 2
MaxDatatypes == 1
\* The most (datatype, specialization) pairs of a sharded pass.
MaxPairs == 3

----------------------------------------------------------------------------
\* Generic helpers.

Range(s) == {s[i] : i \in 1..Len(s)}

RECURSIVE Concat(_)
Concat(ss) == IF ss = <<>> THEN <<>> ELSE Head(ss) \o Concat(Tail(ss))

None == <<>>

\* Keep the elements of s that are not None.
RECURSIVE Somes(_)
Somes(s) ==
    IF s = <<>> THEN <<>>
    ELSE IF Head(s) = None THEN Somes(Tail(s)) ELSE <<Head(s)>> \o Somes(Tail(s))

----------------------------------------------------------------------------
\* vir types (crate::ast::TypX).

TBool == <<"Bool">>
TInt == <<"Int", "Int">>
TU8 == <<"Int", "U8">>
TypParam(a) == <<"TypParam", a>>
TDatatype(dt, targs) == <<"Datatype", dt, targs>>
TSpecFn(targs, ret) == <<"SpecFn", targs, ret>>
TBoxed(t) == <<"Boxed", t>>
TDecorate(t) == <<"Decorate", t>>
TPrimitive(p, targs) == <<"Primitive", p, targs>>
TAnonymousClosure == <<"AnonymousClosure">>

\* The direct sub-types of a type, in visiting order.
TypChildren(t) ==
    CASE t[1] = "Datatype" -> t[3]
      [] t[1] = "SpecFn" -> t[2] \o <<t[3]>>
      [] t[1] = "Boxed" -> <<t[2]>>
      [] t[1] = "Decorate" -> <<t[2]>>
      [] t[1] = "Primitive" -> t[3]
      [] OTHER -> <<>>

\* crate::ast_visitor::typ_visitor_check visits a type and all its sub-types:
\* the visited types, in visiting order.
RECURSIVE SubTyps(_)
SubTyps(t) ==
    <<t>> \o Concat([i \in 1..Len(TypChildren(t)) |-> SubTyps(TypChildren(t)[i])])

undecorate_typ(t) == IF t[1] = "Decorate" THEN t[2] ELSE t

----------------------------------------------------------------------------
\* Identifier/Path namer (crate::def, crate::sst_to_air, crate::mono).

QID_BOX_AXIOM == "box_axiom_definition"
QID_UNBOX_AXIOM == "unbox_axiom_definition"
QID_CONSTRUCTOR == "constructor_definition"
QID_CONSTRUCTOR_INNER == "constructor_inner_definition"
QID_ACCESSOR == "accessor_definition"
QID_INVARIANT == "invariant_definition"
QID_HAS_TYPE_ALWAYS == "has_type_always_definition"
QID_APPLY == "apply_definition"
QID_HEIGHT_APPLY == "height_apply_definition"
QID_HEIGHT == "height_definition"
QID_EXT_EQUAL == "ext_equal_definition"

POLY == <<"Poly">>
FUN == <<"Fun">>
TYPE == <<"Type">>

encode_dt_as_path(dt) == dt
path_to_string(p) == <<"path">> \o p
path_as_friendly_rust_name(p) == p
prefix_box(p) == <<"Poly%">> \o p
prefix_unbox(p) == <<"%Poly%">> \o p
prefix_type_id(p) == <<"TYPE%">> \o p
prefix_fndef_type_id(f) == <<"FNDEF%">> \o f
prefix_spec_fn_type(n) == <<"fun%", ToString(n)>>
prefix_tuple_param(i) == "T%" \o ToString(i)
array_type == <<"array%">>
path_to_air_ident(p) == p \o <<".">>
dt_to_air_ident(dt) == path_to_air_ident(encode_dt_as_path(dt))
variant_ident_mangled(p, variant) == p \o <<"/", variant>>
variant_ident(dt, variant) == variant_ident_mangled(encode_dt_as_path(dt), variant)
is_variant_ident(dt, variant) == <<"is-">> \o variant_ident(dt, variant)
variant_field_ident_internal(p, variant, field, internal) ==
    p \o <<"/", variant, "/">> \o (IF internal THEN <<"?">> ELSE <<>>) \o <<field>>
variant_field_ident(p, variant, field) ==
    variant_field_ident_internal(p, variant, field, FALSE)

\* The name of a concrete type inside a mangled path.
TypName(t) ==
    CASE t = TBool -> "bool"
      [] t = TInt -> "int"
      [] t = TU8 -> "u8"
      [] OTHER -> "t"

\* crate::mono::Specialization: typs gives, by position, the concrete types.
DefaultSpec == [typs |-> <<>>]
SpecIsEmpty(spec) == spec.typs = <<>>
mangle_path(spec, p) == p \o [i \in 1..Len(spec.typs) |-> TypName(spec.typs[i])]
spec_dt_to_air_ident(spec, dt) ==
    path_to_air_ident(mangle_path(spec, encode_dt_as_path(dt)))

----------------------------------------------------------------------------
\* AIR expressions (air::ast::ExprX and air::ast_util).

ident_var(x) == <<"var", <<x>>>>
ident_apply(f, args) == <<"apply", f, args>>
str_apply(f, args) == ident_apply(<<f>>, args)
ApplyFun(f, args) == <<"apply_fun", f, args>>
mk_eq(a, b) == <<"=", a, b>>
mk_implies(a, b) == <<"=>", a, b>>
mk_and(es) == <<"and", es>>
func_bind_trig(name, tparams, params, trigs) == <<"bind", name, tparams, params, trigs>>
func_bind(name, tparams, params, trig) == func_bind_trig(name, tparams, params, <<trig>>)
mk_bind_expr(bind, body) == <<"forall", bind, body>>

\* The direct sub-expressions of an expression; a quantifier's triggers are
\* not part of its body.
ExprChildren(e) ==
    CASE e[1] = "apply" -> e[3]
      [] e[1] = "apply_fun" -> <<e[2]>> \o e[3]
      [] e[1] = "=" -> <<e[2], e[3]>>
      [] e[1] = "=>" -> <<e[2], e[3]>>
      [] e[1] = "and" -> e[2]
      [] e[1] = "forall" -> <<e[3]>>
      [] e[1] = "has_type" -> <<e[2], e[3]>>
      [] OTHER -> <<>>

\* The triggers of the quantifiers directly at e.
ExprTrigs(e) == IF e[1] = "forall" THEN e[2][5] ELSE <<>>

\* The identifiers applied anywhere in e, triggers included.
RECURSIVE Heads(_)
Heads(e) ==
    (IF e[1] = "apply" THEN {e[2]} ELSE {})
    \cup UNION {Heads(ExprChildren(e)[i]) : i \in 1..Len(ExprChildren(e))}
    \cup UNION {Heads(ExprTrigs(e)[i]) : i \in 1..Len(ExprTrigs(e))}

\* All sub-expressions of e, e included, triggers excluded.
RECURSIVE SubExprs(_)
SubExprs(e) ==
    <<e>> \o Concat([n \in 1..Len(ExprChildren(e)) |-> SubExprs(ExprChildren(e)[n])])

\* The identifiers applied in the triggers of e's quantifiers.
RECURSIVE TrigHeads(_)
TrigHeads(e) ==
    UNION {TrigHeads(ExprChildren(e)[i]) : i \in 1..Len(ExprChildren(e))}
    \cup UNION {Heads(ExprTrigs(e)[i]) : i \in 1..Len(ExprTrigs(e))}

----------------------------------------------------------------------------
\* The verified program: datatype definitions (crate::ast::DatatypeX).

Field(name, typ) == [name |-> name, typ |-> typ]
Variant(name, fields) == [name |-> name, fields |-> fields]

ListPath == <<"List">>
PairPath == <<"Pair">>
RecPath == <<"Rec">>
FlagPath == <<"Flag">>

\* enum List<T> { Nil, Cons(T, Box<List<T>>) }
ListDt ==
    [name |-> ListPath, typ_params |-> <<"T">>,
     variants |-> <<Variant("Nil", <<>>),
                    Variant("Cons", <<Field("0", TypParam("T")),
                                      Field("1", TDecorate(TDatatype(ListPath, <<TypParam("T")>>)))>>)>>]

\* struct Pair<A, B> { a: A, b: B }
PairDt ==
    [name |-> PairPath, typ_params |-> <<"A", "B">>,
     variants |-> <<Variant("Pair", <<Field("a", TypParam("A")), Field("b", TypParam("B"))>>)>>]

\* struct Rec { n: u8, on: bool }
RecDt ==
    [name |-> RecPath, typ_params |-> <<>>,
     variants |-> <<Variant("Rec", <<Field("n", TU8), Field("on", TBool)>>)>>]

\* struct Flag { on: bool, n: int }
FlagDt ==
    [name |-> FlagPath, typ_params |-> <<>>,
     variants |-> <<Variant("Flag", <<Field("on", TBool), Field("n", TInt)>>)>>]

OptionPath == <<"Option">>
MapPath == <<"vstd", "map", "Map">>
SPath == <<"S">>
HoldPath == <<"Hold">>

\* enum Option<V> { None, Some(V) }
OptionDt ==
    [name |-> OptionPath, typ_params |-> <<"V">>,
     variants |-> <<Variant("None", <<>>),
                    Variant("Some", <<Field("0", TypParam("V"))>>)>>]

\* vstd::map::Map<K, V>, an abstract type
MapDt ==
    [name |-> MapPath, typ_params |-> <<"K", "V">>,
     variants |-> <<Variant("Map", <<>>)>>]

\* struct S<A, B> { a: A, o: Option<A>, f: FnSpec(int) -> Option<S<A, B>>,
\*                  g: FnSpec(int) -> Option<A>, h: FnSpec(int) -> S<B, A>,
\*                  m: Map<int, S<A, B>>, p: FnSpec(int) -> int }
SDt ==
    [name |-> SPath, typ_params |-> <<"A", "B">>,
     variants |-> <<Variant("S",
        <<Field("a", TypParam("A")),
          Field("o", TDatatype(OptionPath, <<TypParam("A")>>)),
          Field("f", TSpecFn(<<TInt>>,
                     TDatatype(OptionPath, <<TDatatype(SPath, <<TypParam("A"), TypParam("B")>>)>>))),
          Field("g", TSpecFn(<<TInt>>, TDatatype(OptionPath, <<TypParam("A")>>))),
          Field("h", TSpecFn(<<TInt>>, TDatatype(SPath, <<TypParam("B"), TypParam("A")>>))),
          Field("m", TDatatype(MapPath,
                     <<TInt, TDatatype(SPath, <<TypParam("A"), TypParam("B")>>)>>)),
          Field("p", TSpecFn(<<TInt>>, TInt))>>)>>]

\* struct Hold { k: <closure> }, the closure type left in by ast_simplify
HoldDt ==
    [name |-> HoldPath, typ_params |-> <<>>,
     variants |-> <<Variant("Hold", <<Field("k", TBoxed(TAnonymousClosure))>>)>>]

Catalog == <<ListDt, PairDt, RecDt, FlagDt, SDt, HoldDt>>

\* DatatypeTransparency: Never, or WhenVisible(restricted_to).
Never == <<"Never">>
WhenVisible(restricted_to) == <<"WhenVisible", restricted_to>>
SourceModule == <<"m">>
Transparencies == {Never, WhenVisible(SourceModule)}

\* The k-th non-empty specialization: k concrete types, by field position.
ConcreteTyps == <<TU8, TBool, TInt>>
SpecOf(k) == [typs |-> [i \in 1..k |-> ConcreteTyps[((k - i) % Len(ConcreteTyps)) + 1]]]

----------------------------------------------------------------------------
VARIABLES
    ctx,                        \* crate::context::Ctx, the fields read here
    datatypes,                  \* crate::ast::Datatypes
    specializations,            \* KrateSpecializations.datatype_spec
    pc, i, j,                   \* the position in datatypes_and_primitives_to_air
    transparent_air_datatypes,  \* the six buckets
    opaque_sort_commands,
    token_commands,
    box_commands,
    field_commands,
    axiom_commands,
    commands,                   \* the returned command stream
    encoded,                    \* the (datatype, specialization) pairs a sharded pass has encoded
    perm, log,                  \* vstd::raw_ptr: a PointsTo<T> and the calls made on it
    held, last,                 \* vstd::raw_ptr: the PointsToRaw held and the last call on them
    layout_call, pow2_n, pow2_ret, layout_ret,    \* vstd::layout: a call, and is_power_2 within it
    input, closed_or_open, spec_func_def, cmps, ordering    \* builtin_macros::derive

vars == <<ctx, datatypes, specializations, pc, i, j, transparent_air_datatypes,
          opaque_sort_commands, token_commands, box_commands, field_commands,
          axiom_commands, commands, encoded, perm, log, held, last,
          layout_call, pow2_n, pow2_ret, layout_ret,
          input, closed_or_open, spec_func_def, cmps, ordering>>

\* The variables of the pass, of vstd::raw_ptr, of vstd::layout and of the
\* derive macros; each program leaves the variables of the others alone.
pass_vars == <<ctx, datatypes, specializations, pc, i, j, transparent_air_datatypes,
               opaque_sort_commands, token_commands, box_commands, field_commands,
               axiom_commands, commands, encoded>>
points_to_vars == <<perm, log>>
raw_vars == <<held, last>>
layout_vars == <<layout_call, pow2_n, pow2_ret, layout_ret>>
derive_vars == <<input, closed_or_open, spec_func_def, cmps, ordering>>
rest == <<points_to_vars, raw_vars, layout_vars, derive_vars>>

PassIdle ==
    /\ ctx = <<>> /\ datatypes = <<>> /\ specializations = <<>>
    /\ pc = "idle" /\ i = 1 /\ j = 1
    /\ transparent_air_datatypes = <<>> /\ opaque_sort_commands = <<>>
    /\ token_commands = <<>> /\ box_commands = <<>> /\ field_commands = <<>>
    /\ axiom_commands = <<>> /\ commands = <<>> /\ encoded = {}
PointsToIdle == perm = <<>> /\ log = <<>>
RawIdle == held = <<>> /\ last = <<>>
LayoutIdle == layout_call = <<>> /\ pow2_n = 0 /\ pow2_ret = <<>> /\ layout_ret = <<>>
DeriveIdle ==
    /\ input = <<>> /\ closed_or_open = "" /\ spec_func_def = <<>>
    /\ cmps = <<>> /\ ordering = <<>>

\* The state of what the pass does not touch.
others == <<encoded, rest>>

inputs == <<ctx, datatypes, specializations>>

\* crate::ast_util::is_visible_to_of_owner: public, or restricted to a module
\* that is the source module or an ancestor of it.
is_visible_to_of_owner(restricted_to, source_module) ==
    \/ restricted_to = None
    \/ /\ Len(restricted_to) <= Len(source_module)
       /\ SubSeq(source_module, 1, Len(restricted_to)) = restricted_to

is_datatype_transparent(source_module, datatype) ==
    IF datatype.transparency = Never THEN FALSE
    ELSE is_visible_to_of_owner(datatype.transparency[2], source_module)

\* ctx.datatype_map[path]
DatatypeOf(path) == CHOOSE d \in Range(datatypes) : d.name = path
IsDeclared(path) == \E d \in Range(datatypes) : d.name = path

\* All types visited in the fields of a datatype.
FieldSubTyps(d) ==
    Concat([v \in 1..Len(d.variants) |->
        Concat([f \in 1..Len(d.variants[v].fields) |-> SubTyps(d.variants[v].fields[f].typ)])])

\* The datatypes a datatype's fields mention.
DtMentions(d) ==
    LET sub == FieldSubTyps(d) IN
    {sub[k][2] : k \in {n \in 1..Len(sub) : sub[n][1] = "Datatype"}}

\* The datatypes reachable from a set of datatypes in n steps over dts.
RECURSIVE Reach(_, _, _)
Reach(dts, ps, n) ==
    IF n = 0 THEN ps
    ELSE LET next == ps \cup UNION {DtMentions(dts[k]) :
                                      k \in {m \in 1..Len(dts) : dts[m].name \in ps}}
         IN  Reach(dts, next, n - 1)

\* The recursion graph of a program: for every datatype, the datatypes in
\* its strongly-connected component.
DatatypeGraph(dts) ==
    LET names == {dts[k].name : k \in 1..Len(dts)}
        reach == [a \in names |-> Reach(dts, {a}, Len(dts))]
    IN  [a \in names |-> {b \in names : b \in reach[a] /\ a \in reach[b]}]

\* ctx.global.datatype_graph.in_same_scc
in_same_scc(a, b) ==
    \/ a = b
    \/ a \in DOMAIN ctx.datatype_graph /\ b \in ctx.datatype_graph[a]

----------------------------------------------------------------------------
\* crate::sst_to_air and crate::poly helpers.

expr_has_type(e, id) == <<"has_type", e, id>>

RECURSIVE typ_to_id(_)
typ_to_id(t) ==
    CASE t[1] = "Bool" -> str_apply("BOOL", <<>>)
      [] t[1] = "Int" -> str_apply(IF t = TInt THEN "INT" ELSE "UINT", <<>>)
      [] t[1] = "TypParam" -> ident_var(t[2])
      [] t[1] = "Datatype" ->
            ident_apply(prefix_type_id(encode_dt_as_path(t[2])),
                        [k \in 1..Len(t[3]) |-> typ_to_id(t[3][k])])
      [] t[1] = "SpecFn" ->
            ident_apply(prefix_type_id(prefix_spec_fn_type(Len(t[2]))),
                        [k \in 1..Len(t[2]) + 1 |->
                            typ_to_id(IF k <= Len(t[2]) THEN t[2][k] ELSE t[3])])
      [] t[1] = "Boxed" -> typ_to_id(t[2])
      [] t[1] = "Decorate" -> typ_to_id(t[2])
      [] t[1] = "Primitive" ->
            str_apply(t[2], [k \in 1..Len(t[3]) |-> typ_to_id(t[3][k])])

datatype_id(dpath, typ_args) ==
    ident_apply(prefix_type_id(dpath), [k \in 1..Len(typ_args) |-> typ_to_id(typ_args[k])])
primitive_id(p, typ_args) ==
    str_apply(p, [k \in 1..Len(typ_args) |-> typ_to_id(typ_args[k])])

\* Mono types are concrete instantiations of abstract types.
StrSliceMonotyp == TPrimitive("StrSlice", <<>>)
monotyp_to_typ(m) == m
monotyp_to_path(m) ==
    IF m[1] = "Primitive" THEN <<"strslice%">>
    ELSE encode_dt_as_path(m[2]) \o <<"<">> \o [k \in 1..Len(m[3]) |-> TypName(m[3][k])] \o <<">">>
monotyp_to_id(m) == typ_to_id(monotyp_to_typ(m))

\* The box prefix of a datatype-typed field (None when it is already Poly).
datatype_box_prefix(t) ==
    IF IsDeclared(t[2]) /\ is_datatype_transparent(SourceModule, DatatypeOf(t[2]))
    THEN encode_dt_as_path(t[2])
    ELSE IF \E n \in 1..Len(SubTyps(t)) : SubTyps(t)[n][1] = "TypParam"
    THEN None
    ELSE monotyp_to_path(t)

\* The type invariant of a type applied to an expression, or None.
typ_invariant(typ, e) ==
    LET t == undecorate_typ(typ) IN
    CASE t[1] = "Int" -> IF t = TInt THEN None ELSE str_apply("uInv", <<e>>)
      [] t[1] = "SpecFn" ->
            expr_has_type(ident_apply(prefix_box(prefix_spec_fn_type(Len(t[2]))), <<e>>),
                          typ_to_id(t))
      [] t[1] = "Datatype" ->
            IF /\ IsDeclared(t[2])
               /\ is_datatype_transparent(SourceModule, DatatypeOf(t[2]))
               /\ t[2] \in ctx.datatypes_with_invariant
            THEN expr_has_type(ident_apply(prefix_box(encode_dt_as_path(t[2])), <<e>>),
                               typ_to_id(t))
            ELSE None
      [] t[1] \in {"Boxed", "TypParam"} -> expr_has_type(e, typ_to_id(t))
      [] OTHER -> None

\* The AIR sort of a type.
typ_to_air(typ) ==
    LET t == undecorate_typ(typ) IN
    CASE t[1] = "Bool" -> <<"Bool">>
      [] t[1] = "Int" -> <<"Int">>
      [] t[1] = "SpecFn" -> FUN
      [] t[1] = "Datatype" ->
            IF IsDeclared(t[2]) /\ is_datatype_transparent(SourceModule, DatatypeOf(t[2]))
            THEN dt_to_air_ident(t[2])
            ELSE POLY
      [] OTHER -> POLY

\* Box an expression of a type unless it is already Poly.
as_box(e, typ) ==
    LET t == undecorate_typ(typ) IN
    CASE t[1] = "Bool" -> str_apply("B", <<e>>)
      [] t[1] = "Int" -> str_apply("I", <<e>>)
      [] t[1] = "SpecFn" -> ident_apply(prefix_box(prefix_spec_fn_type(Len(t[2]))), <<e>>)
      [] t[1] = "Datatype" ->
            IF IsDeclared(t[2]) /\ is_datatype_transparent(SourceModule, DatatypeOf(t[2]))
            THEN ident_apply(prefix_box(encode_dt_as_path(t[2])), <<e>>)
            ELSE e
      [] OTHER -> e

\* typ_to_air, typ_to_id and typ_invariant stop with an internal error on an
\* AnonymousClosure they reach.
typ_to_air_panics(typ) == undecorate_typ(typ)[1] = "AnonymousClosure"
typ_to_id_panics(typ) ==
    \E n \in 1..Len(SubTyps(typ)) : SubTyps(typ)[n][1] = "AnonymousClosure"
typ_invariant_panics(typ) ==
    LET t == undecorate_typ(typ) IN
    CASE t[1] = "AnonymousClosure" -> TRUE
      [] t[1] \in {"SpecFn", "Boxed", "TypParam"} -> typ_to_id_panics(t)
      [] t[1] = "Datatype" ->
            /\ IsDeclared(t[2])
            /\ is_datatype_transparent(SourceModule, DatatypeOf(t[2]))
            /\ t[2] \in ctx.datatypes_with_invariant
            /\ typ_to_id_panics(t)
      [] OTHER -> FALSE

----------------------------------------------------------------------------
\* AIR commands (air::ast::CommandX::Global of a DeclX).

Cmd(kind, name, sig, body) == [kind |-> kind, name |-> name, sig |-> sig, body |-> body]
DeclSort(name) == Cmd("Sort", name, <<>>, <<>>)
DeclFun(name, args, ret) == Cmd("Fun", name, <<args, ret>>, <<>>)
DeclConst(name, ret) == Cmd("Const", name, <<<<>>, ret>>, <<>>)
fun_or_const(name, args, ret) ==
    IF args = <<>> THEN DeclConst(name, ret) ELSE DeclFun(name, args, ret)
DeclDatatypes(dts) == Cmd("Datatypes", <<>>, <<>>, dts)
mk_unnamed_axiom(e) == Cmd("Axiom", <<>>, <<>>, e)

\* crate::def::types(): the sorts that stand for one type argument.
types == <<<<"Dcr">>, TYPE>>

Par(name, typ) == [name |-> name, typ |-> typ]
field_to_par(f) == Par("_" \o f.name, f.typ)
func_def_args(params) == [k \in 1..Len(params) |-> ident_var(params[k].name)]

----------------------------------------------------------------------------
\* datatype_to_air: the AIR datatype of one (datatype, specialization).
\* An AIR datatype is <<sort name, variants>>, a variant <<constructor,
\* fields>>, a field <<internal selector, sort>>.

SpecFieldTyp(spec, k, field) ==
    IF k <= Len(spec.typs) THEN spec.typs[k] ELSE field.typ

datatype_to_air(datatype, spec) ==
    LET path == mangle_path(spec, encode_dt_as_path(datatype.name))
        AirField(variant, k) ==
            <<variant_field_ident_internal(path, variant.name, variant.fields[k].name, TRUE),
              typ_to_air(SpecFieldTyp(spec, k, variant.fields[k]))>>
        AirVariant(variant) ==
            <<variant_ident_mangled(path, variant.name),
              [k \in 1..Len(variant.fields) |-> AirField(variant, k)]>>
    IN  <<spec_dt_to_air_ident(spec, datatype.name),
          [v \in 1..Len(datatype.variants) |-> AirVariant(datatype.variants[v])]>>

\* datatype_to_air stops when typ_to_air does on one of the field types.
datatype_to_air_panics(datatype, spec) ==
    \E v \in 1..Len(datatype.variants) :
        \E k \in 1..Len(datatype.variants[v].fields) :
            typ_to_air_panics(SpecFieldTyp(spec, k, datatype.variants[v].fields[k]))

----------------------------------------------------------------------------
\* datatype_or_fun_to_air_commands, section by section.  The encoded kind is
\* <<"Dt", dt>>, <<"Monotyp">>, <<"FnSpec">> or <<"Array">>; dtyp_id is None,
\* <<"Expr", e>> or <<"Primitive", p>>.

x_var == ident_var("x")
x_param(typ) == Par("x", typ)
x_params(typ) == <<x_param(typ)>>
TypArgs(tparams) == [k \in 1..Len(tparams) |-> TypParam(tparams[k])]

\* A faulty short-circuit: the flag is used as passed.
DeclareBoxAsPassed(declare_box, spec) == declare_box

\* The short-circuit: no boxing under a non-empty specialization.
DeclareBox(declare_box, spec) == IF ~SpecIsEmpty(spec) THEN FALSE ELSE declare_box

\* The datatype TYPE identifier.
TokenCommands(dpath, dtyp_id, tparams) ==
    IF dtyp_id = None
    THEN <<fun_or_const(prefix_type_id(dpath),
                        Concat([k \in 1..Len(tparams) |-> types]), TYPE)>>
    ELSE <<>>

\* The box and unbox functions.
BoxCommands(declare_box, dpath, dtyp) ==
    IF declare_box
    THEN <<DeclFun(prefix_box(dpath), <<dtyp>>, POLY),
           DeclFun(prefix_unbox(dpath), <<POLY>>, dtyp)>>
    ELSE <<>>

head_box(declare_box, dpath) ==
    IF declare_box THEN prefix_box(dpath) ELSE path_to_string(dpath)
head_unbox(declare_box, dpath) ==
    IF declare_box THEN prefix_unbox(dpath) ELSE path_to_string(dpath)
box_x(declare_box, dpath) ==
    IF declare_box THEN ident_apply(head_box(declare_box, dpath), <<x_var>>) ELSE x_var
unbox_x(declare_box, dpath) ==
    IF declare_box THEN ident_apply(head_unbox(declare_box, dpath), <<x_var>>) ELSE x_var
box_unbox_x(declare_box, dpath) ==
    IF declare_box
    THEN ident_apply(head_box(declare_box, dpath), <<unbox_x(declare_box, dpath)>>)
    ELSE x_var
unbox_box_x(declare_box, dpath) ==
    IF declare_box
    THEN ident_apply(head_unbox(declare_box, dpath), <<box_x(declare_box, dpath)>>)
    ELSE x_var

TypeId(dtyp_id, dpath, tparams) ==
    CASE dtyp_id = None -> datatype_id(dpath, TypArgs(tparams))
      [] dtyp_id[1] = "Expr" -> dtyp_id[2]
      [] dtyp_id[1] = "Primitive" -> primitive_id(dtyp_id[2], TypArgs(tparams))

\* A faulty box axiom: triggered on the round trip instead of on box(x).
BoxAxiomTriggeredOnRoundTrip(declare_box, dpath, datatyp) ==
    mk_unnamed_axiom(mk_bind_expr(
        func_bind(path_as_friendly_rust_name(dpath) \o <<QID_BOX_AXIOM>>, <<>>,
                  x_params(datatyp), unbox_box_x(declare_box, dpath)),
        mk_eq(x_var, unbox_box_x(declare_box, dpath))))

\* The box axiom: forall x. x == unbox(box(x)), triggered on box(x).
BoxAxiom(declare_box, dpath, datatyp) ==
    mk_unnamed_axiom(mk_bind_expr(
        func_bind(path_as_friendly_rust_name(dpath) \o <<QID_BOX_AXIOM>>, <<>>,
                  x_params(datatyp), box_x(declare_box, dpath)),
        mk_eq(x_var, unbox_box_x(declare_box, dpath))))

\* A faulty unbox axiom: the membership guard is dropped.
UnboxAxiomUnguarded(declare_box, dpath, id, datatyp, tparams) ==
    LET has == expr_has_type(x_var, id) IN
    mk_unnamed_axiom(mk_bind_expr(
        func_bind(path_as_friendly_rust_name(dpath) \o <<QID_UNBOX_AXIOM>>, tparams,
                  x_params(TBoxed(datatyp)), has),
        mk_eq(x_var, box_unbox_x(declare_box, dpath))))

\* The unbox axiom: forall typs, x. has_type(x, T(typs)) => x == box(unbox(x)),
\* triggered on has_type(x, T(typs)).
UnboxAxiom(declare_box, dpath, id, datatyp, tparams) ==
    LET has == expr_has_type(x_var, id) IN
    mk_unnamed_axiom(mk_bind_expr(
        func_bind(path_as_friendly_rust_name(dpath) \o <<QID_UNBOX_AXIOM>>, tparams,
                  x_params(TBoxed(datatyp)), has),
        mk_implies(has, mk_eq(x_var, box_unbox_x(declare_box, dpath)))))

BoxAxioms(declare_box, dpath, id, datatyp, tparams) ==
    IF declare_box
    THEN <<BoxAxiom(declare_box, dpath, datatyp),
           UnboxAxiom(declare_box, dpath, id, datatyp, tparams)>>
    ELSE <<>>

\* The three axioms of a closure family (constructor, apply, height).
FnSpecArgNames(tparams) == [k \in 1..Len(tparams) - 1 |-> tparams[k]]
FnSpecArgs(tparams) ==
    [k \in 1..Len(FnSpecArgNames(tparams)) |-> ident_var(FnSpecArgNames(tparams)[k])]
FnSpecParams(tparams, datatyp) ==
    [k \in 1..Len(FnSpecArgNames(tparams)) |-> Par(FnSpecArgNames(tparams)[k], TBoxed(datatyp))]
FnSpecPre(tparams) ==
    Somes([k \in 1..Len(FnSpecArgNames(tparams)) |->
              typ_invariant(TypArgs(tparams)[k], FnSpecArgs(tparams)[k])])
FnSpecApp(tparams) == ApplyFun(x_var, FnSpecArgs(tparams))
FnSpecHasApp(tparams) ==
    typ_invariant(TypArgs(tparams)[Len(tparams)], FnSpecApp(tparams))
box_mk_fun(declare_box, dpath) ==
    LET mk_fun == str_apply("mk_fun", <<x_var>>) IN
    IF declare_box THEN ident_apply(head_box(declare_box, dpath), <<mk_fun>>) ELSE mk_fun

\* A faulty constructor axiom: the inner quantifier is triggered on the bare
\* application.
FnSpecConstructorAxiomOnApp(declare_box, dpath, id, datatyp, tparams) ==
    LET has_app == FnSpecHasApp(tparams)
        inner_bind ==
            func_bind_trig(path_as_friendly_rust_name(dpath) \o <<QID_CONSTRUCTOR_INNER>>,
                           <<>>, FnSpecParams(tparams, datatyp), <<FnSpecApp(tparams)>>)
        inner_forall ==
            mk_bind_expr(inner_bind, mk_implies(mk_and(FnSpecPre(tparams)), has_app))
        has_box_mk_fun == expr_has_type(box_mk_fun(declare_box, dpath), id)
        bind ==
            func_bind_trig(path_as_friendly_rust_name(dpath) \o <<QID_CONSTRUCTOR>>,
                           tparams, <<x_param(datatyp)>>, <<has_box_mk_fun>>)
    IN  mk_unnamed_axiom(mk_bind_expr(bind, mk_implies(inner_forall, has_box_mk_fun)))

FnSpecConstructorAxiom(declare_box, dpath, id, datatyp, tparams) ==
    LET has_app == FnSpecHasApp(tparams)
        inner_bind ==
            func_bind_trig(path_as_friendly_rust_name(dpath) \o <<QID_CONSTRUCTOR_INNER>>,
                           <<>>, FnSpecParams(tparams, datatyp), <<has_app>>)
        inner_forall ==
            mk_bind_expr(inner_bind, mk_implies(mk_and(FnSpecPre(tparams)), has_app))
        has_box_mk_fun == expr_has_type(box_mk_fun(declare_box, dpath), id)
        bind ==
            func_bind_trig(path_as_friendly_rust_name(dpath) \o <<QID_CONSTRUCTOR>>,
                           tparams, <<x_param(datatyp)>>, <<has_box_mk_fun>>)
    IN  mk_unnamed_axiom(mk_bind_expr(bind, mk_implies(inner_forall, has_box_mk_fun)))

FnSpecApplyAxiom(declare_box, dpath, id, datatyp, tparams) ==
    LET has_box == expr_has_type(box_x(declare_box, dpath), id)
        app == FnSpecApp(tparams)
        aparams == FnSpecParams(tparams, datatyp) \o <<x_param(datatyp)>>
        pre == <<has_box>> \o FnSpecPre(tparams)
        bind ==
            func_bind_trig(path_as_friendly_rust_name(dpath) \o <<QID_APPLY>>,
                           tparams, aparams, <<app, has_box>>)
    IN  mk_unnamed_axiom(mk_bind_expr(bind, mk_implies(mk_and(pre), FnSpecHasApp(tparams))))

FnSpecHeightAxiom(declare_box, dpath, id, datatyp, tparams) ==
    LET has_box == expr_has_type(box_x(declare_box, dpath), id)
        aparams == FnSpecParams(tparams, datatyp) \o <<x_param(datatyp)>>
        pre == <<has_box>> \o FnSpecPre(tparams)
        height_app == str_apply("height", <<FnSpecApp(tparams)>>)
        from_rec_fun ==
            str_apply("fun_from_recursive_field", <<box_mk_fun(declare_box, dpath)>>)
        height_fun == str_apply("height", <<from_rec_fun>>)
        height_lt == str_apply("height_lt", <<height_app, height_fun>>)
        bind ==
            func_bind_trig(path_as_friendly_rust_name(dpath) \o <<QID_HEIGHT_APPLY>>,
                           tparams, aparams, <<height_app, has_box>>)
    IN  mk_unnamed_axiom(mk_bind_expr(bind, mk_implies(mk_and(pre), height_lt)))

FnSpecAxioms(kind, declare_box, dpath, id, datatyp, tparams) ==
    IF kind[1] = "FnSpec"
    THEN <<FnSpecConstructorAxiom(declare_box, dpath, id, datatyp, tparams),
           FnSpecApplyAxiom(declare_box, dpath, id, datatyp, tparams),
           FnSpecHeightAxiom(declare_box, dpath, id, datatyp, tparams)>>
    ELSE <<>>

\* Does the encoded kind carry visible refinements.
HasInvariant(kind) == kind[1] = "Dt" /\ kind[2] \in ctx.datatypes_with_invariant

\* The constructor invariant axiom of one variant.
ConstructorAxiom(kind, declare_box, dpath, tparams, variant) ==
    LET dt == kind[2]
        params == [k \in 1..Len(variant.fields) |-> field_to_par(variant.fields[k])]
        ctor == ident_apply(variant_ident(dt, variant.name), func_def_args(params))
        box_ctor ==
            IF declare_box THEN ident_apply(head_box(declare_box, dpath), <<ctor>>) ELSE ctor
        has_ctor == expr_has_type(box_ctor, datatype_id(dpath, TypArgs(tparams)))
        pre ==
            Somes([k \in 1..Len(variant.fields) |->
                      typ_invariant(variant.fields[k].typ,
                                    ident_var("_" \o variant.fields[k].name))])
        bind == func_bind(variant_ident(dt, variant.name) \o <<QID_CONSTRUCTOR>>,
                          tparams, params, has_ctor)
    IN  mk_unnamed_axiom(mk_bind_expr(bind, mk_implies(mk_and(pre), has_ctor)))

\* The wrapper function of field k of a variant.
FieldDecl(dpath, dtyp, spec, variant, k) ==
    DeclFun(variant_field_ident(dpath, variant.name, variant.fields[k].name),
            <<dtyp>>, typ_to_air(SpecFieldTyp(spec, k, variant.fields[k])))

\* A faulty accessor axiom: triggered on the internal selector.
AccessorAxiomTriggeredOnInternal(dpath, datatyp, variant, k) ==
    LET id == variant_field_ident(dpath, variant.name, variant.fields[k].name)
        internal_id ==
            variant_field_ident_internal(dpath, variant.name, variant.fields[k].name, TRUE)
        xfield == ident_apply(id, <<x_var>>)
        xfield_internal == ident_apply(internal_id, <<x_var>>)
        bind == func_bind_trig(id \o <<QID_ACCESSOR>>, <<>>, x_params(datatyp),
                               <<xfield_internal>>)
    IN  mk_unnamed_axiom(mk_bind_expr(bind, mk_eq(xfield, xfield_internal)))

\* The accessor (bridging) axiom of field k of a variant.
AccessorAxiom(dpath, datatyp, variant, k) ==
    LET id == variant_field_ident(dpath, variant.name, variant.fields[k].name)
        internal_id ==
            variant_field_ident_internal(dpath, variant.name, variant.fields[k].name, TRUE)
        xfield == ident_apply(id, <<x_var>>)
        xfield_internal == ident_apply(internal_id, <<x_var>>)
        bind == func_bind_trig(id \o <<QID_ACCESSOR>>, <<>>, x_params(datatyp), <<xfield>>)
    IN  mk_unnamed_axiom(mk_bind_expr(bind, mk_eq(xfield, xfield_internal)))

\* A faulty field invariant axiom: the invariant is that of the declared
\* field type, whatever the specialization.
FieldInvariantAxiomsDeclared(kind, declare_box, dpath, id, datatyp, tparams, spec, variant, k) ==
    LET fid == variant_field_ident(dpath, variant.name, variant.fields[k].name)
        has == expr_has_type(x_var, id)
        xfield_unbox == ident_apply(fid, <<unbox_x(declare_box, dpath)>>)
        inv_f == typ_invariant(variant.fields[k].typ, xfield_unbox)
        bind == func_bind_trig(fid \o <<QID_INVARIANT>>, tparams,
                               x_params(TBoxed(datatyp)), <<xfield_unbox, has>>)
    IN  IF HasInvariant(kind) /\ inv_f # None
        THEN <<mk_unnamed_axiom(mk_bind_expr(bind, mk_implies(has, inv_f)))>>
        ELSE <<>>

\* The field invariant axiom of field k of a variant, if its type has one.
FieldInvariantAxioms(kind, declare_box, dpath, id, datatyp, tparams, spec, variant, k) ==
    LET fid == variant_field_ident(dpath, variant.name, variant.fields[k].name)
        typ == SpecFieldTyp(spec, k, variant.fields[k])
        has == expr_has_type(x_var, id)
        xfield_unbox == ident_apply(fid, <<unbox_x(declare_box, dpath)>>)
        inv_f == typ_invariant(typ, xfield_unbox)
        bind == func_bind_trig(fid \o <<QID_INVARIANT>>, tparams,
                               x_params(TBoxed(datatyp)), <<xfield_unbox, has>>)
    IN  IF HasInvariant(kind) /\ inv_f # None
        THEN <<mk_unnamed_axiom(mk_bind_expr(bind, mk_implies(has, inv_f)))>>
        ELSE <<>>

\* The constructor and field axioms of all variants, in emission order.
VariantAxioms(kind, declare_box, dpath, id, datatyp, tparams, variants, spec) ==
    Concat([v \in 1..Len(variants) |->
        (IF HasInvariant(kind)
         THEN <<ConstructorAxiom(kind, declare_box, dpath, tparams, variants[v])>>
         ELSE <<>>)
        \o Concat([k \in 1..Len(variants[v].fields) |->
              <<AccessorAxiom(dpath, datatyp, variants[v], k)>>
              \o FieldInvariantAxioms(kind, declare_box, dpath, id, datatyp, tparams,
                                      spec, variants[v], k)])])

FieldCommands(dpath, dtyp, variants, spec) ==
    Concat([v \in 1..Len(variants) |->
        [k \in 1..Len(variants[v].fields) |-> FieldDecl(dpath, dtyp, spec, variants[v], k)]])

\* A faulty test: every datatype is taken to have no visible refinement.
has_type_always_holds_any_datatype(kind) == kind[1] \in {"Dt", "Monotyp"}

\* has_type always holds when no refinement is visible.
has_type_always_holds(kind) ==
    CASE kind[1] = "Dt" -> ~(kind[2] \in ctx.datatypes_with_invariant)
      [] kind[1] = "Array" -> FALSE
      [] kind[1] = "FnSpec" -> FALSE
      [] kind[1] = "Monotyp" -> TRUE

HasTypeAlwaysAxioms(kind, declare_box, dpath, id, datatyp, tparams) ==
    LET has_box == expr_has_type(box_x(declare_box, dpath), id) IN
    IF declare_box /\ has_type_always_holds(kind)
    THEN <<mk_unnamed_axiom(mk_bind_expr(
             func_bind(path_as_friendly_rust_name(dpath) \o <<QID_HAS_TYPE_ALWAYS>>,
                       tparams, x_params(datatyp), has_box),
             has_box))>>
    ELSE <<>>

----------------------------------------------------------------------------
\* uses_ext_equal: does a type need extensional equality.  It panics on an
\* AnonymousClosure, a TypeId or an Air type.

RECURSIVE uses_ext_equal_panics(_)
uses_ext_equal_panics(t) ==
    CASE t[1] \in {"AnonymousClosure", "TypeId", "Air"} -> TRUE
      [] t[1] = "Decorate" -> uses_ext_equal_panics(t[2])
      [] t[1] = "Boxed" -> uses_ext_equal_panics(t[2])
      [] OTHER -> FALSE

RECURSIVE uses_ext_equal(_)
uses_ext_equal(t) ==
    CASE t[1] = "Int" -> FALSE
      [] t[1] = "Bool" -> FALSE
      [] t[1] = "SpecFn" -> TRUE
      [] t[1] = "Datatype" -> DatatypeOf(t[2]).ext_equal
      [] t[1] = "Decorate" -> uses_ext_equal(t[2])
      [] t[1] = "Boxed" -> uses_ext_equal(t[2])
      [] t[1] = "TypParam" -> TRUE
      [] t[1] = "Projection" -> TRUE
      [] t[1] = "ConstInt" -> FALSE
      [] t[1] = "Primitive" -> t[2] \in {"Array", "Slice"}
      [] OTHER -> FALSE

\* A datatype in the same recursion component as my_dt occurs in the type.
MentionsScc(typ, my_dt) ==
    LET sub == SubTyps(typ) IN
    \E n \in 1..Len(sub) : sub[n][1] = "Datatype" /\ in_same_scc(sub[n][2], my_dt)

\* A faulty filter: type parameters do not count.
has_recursion_only(typ, my_dt) == MentionsScc(typ, my_dt)

\* The height filter: such a datatype or a type parameter occurs in the type.
has_recursion_or_tparam(typ, my_dt) ==
    \/ MentionsScc(typ, my_dt)
    \/ LET sub == SubTyps(typ) IN \E n \in 1..Len(sub) : sub[n][1] = "TypParam"

\* The return type of a spec function or the value type of a Map, or None.
fun_or_map_ret(unboxed) ==
    CASE unboxed[1] = "SpecFn" -> unboxed[3]
      [] unboxed[1] = "Datatype" /\ unboxed[2] = MapPath /\ Len(unboxed[3]) = 2 -> unboxed[3][2]
      [] OTHER -> None

\* typ_visitor_dfs with the visitor of recursive_function_field: TRUE when no
\* type parameter is met outside an occurrence of our_typ.
RECURSIVE NoTypParamOutside(_, _)
NoTypParamOutside(t, our_typ) ==
    IF t[1] = our_typ[1] /\ t = our_typ THEN TRUE
    ELSE IF t[1] = "TypParam" THEN FALSE
    ELSE \A n \in 1..Len(TypChildren(t)) : NoTypParamOutside(TypChildren(t)[n], our_typ)

\* A faulty flag: the return type is not inspected.
recursive_function_field_any_ret(typ, my_dt, tparams) ==
    LET t == undecorate_typ(typ)
        unboxed == IF t[1] = "Boxed" THEN t[2] ELSE t
    IN  fun_or_map_ret(unboxed) # None

recursive_function_field(typ, my_dt, tparams) ==
    LET t == undecorate_typ(typ)
        unboxed == IF t[1] = "Boxed" THEN t[2] ELSE t
        ret == fun_or_map_ret(unboxed)
    IN  IF ret # None
        THEN NoTypParamOutside(ret, TDatatype(my_dt, TypArgs(tparams)))
        ELSE FALSE

\* crate::prelude::datatype_height_axioms: the height axiom template.
datatype_height_axioms(typ_name, typ_name2, is_variant, field, rec_fun_field) ==
    LET plain ==
            IF typ_name2 = None THEN ident_apply(field, <<x_var>>)
            ELSE ident_apply(prefix_box(typ_name2), <<ident_apply(field, <<x_var>>)>>)
        field_of_x ==
            IF rec_fun_field THEN str_apply("fun_from_recursive_field", <<plain>>) ELSE plain
        height_field == str_apply("height", <<field_of_x>>)
        height_x == str_apply("height", <<ident_apply(prefix_box(typ_name), <<x_var>>)>>)
        bind == func_bind_trig(field \o <<QID_HEIGHT>>, <<>>,
                               <<Par("x", <<"Air", path_to_air_ident(typ_name)>>)>>,
                               <<height_field>>)
    IN  <<mk_unnamed_axiom(mk_bind_expr(bind,
            mk_implies(ident_apply(is_variant, <<x_var>>),
                       str_apply("height_lt", <<height_field, height_x>>))))>>

\* A faulty filter: the test for recursion or a type parameter is skipped.
HeightFieldOfAnyKind(typ, my_dt) ==
    undecorate_typ(typ)[1] \in {"SpecFn", "Datatype", "Boxed", "TypParam"}

\* Does the height section emit an axiom for the field.
HeightFieldIncluded(typ, my_dt) ==
    /\ has_recursion_or_tparam(typ, my_dt)
    /\ undecorate_typ(typ)[1] \in {"SpecFn", "Datatype", "Boxed", "TypParam"}

field_box_path(typ) ==
    LET t == undecorate_typ(typ) IN
    CASE t[1] = "SpecFn" -> prefix_spec_fn_type(Len(t[2]))
      [] t[1] = "Datatype" -> datatype_box_prefix(t)
      [] OTHER -> None

HeightAxioms(kind, add_height, dpath, tparams, variants) ==
    IF add_height
    THEN Concat([v \in 1..Len(variants) |->
           Concat([k \in 1..Len(variants[v].fields) |->
             LET field == variants[v].fields[k] IN
             IF HeightFieldIncluded(field.typ, kind[2])
             THEN datatype_height_axioms(
                      dpath, field_box_path(field.typ),
                      is_variant_ident(kind[2], variants[v].name),
                      variant_field_ident(dpath, variants[v].name, field.name),
                      recursive_function_field(field.typ, kind[2], tparams))
             ELSE <<>>])])
    ELSE <<>>

----------------------------------------------------------------------------
\* The ext_equal axioms.

y_var == ident_var("y")
deep_var == ident_var("deep")
unbox_y(dpath) == ident_apply(prefix_unbox(dpath), <<y_var>>)

\* eq_command: pre ==> ext_eq(deep, id, x, y), triggered on the conclusion.
eq_command(s_name, pre, id, datatyp, tparams) ==
    LET params == <<Par("deep", TBool), x_param(TBoxed(datatyp)), Par("y", TBoxed(datatyp))>>
        ext_eq_xy == str_apply("ext_eq", <<deep_var, id, x_var, y_var>>)
        bind == func_bind(s_name \o <<QID_EXT_EQUAL>>, tparams, params, ext_eq_xy)
    IN  mk_unnamed_axiom(mk_bind_expr(bind, mk_implies(mk_and(pre), ext_eq_xy)))

\* A faulty test: recursive fields are compared with ext_eq as well.
uses_ext_even_if_recursive(typ, my_dt) == uses_ext_equal(typ)

\* Is the field compared with ext_eq rather than with ==.
uses_ext(typ, my_dt) == uses_ext_equal(typ) /\ ~MentionsScc(typ, my_dt)

\* The equality of one field in the per-variant ext_equal axiom.
FieldEq(declare_box, dpath, my_dt, variant, field) ==
    LET fid == variant_field_ident(dpath, variant.name, field.name)
        xfield == ident_apply(fid, <<unbox_x(declare_box, dpath)>>)
        yfield == ident_apply(fid, <<unbox_y(dpath)>>)
    IN  IF uses_ext(field.typ, my_dt)
        THEN str_apply("ext_eq", <<deep_var, typ_to_id(field.typ),
                                   as_box(xfield, field.typ), as_box(yfield, field.typ)>>)
        ELSE mk_eq(xfield, yfield)

\* A faulty axiom: the discriminators are required of single-variant types too.
VariantExtEqualAxiomDiscriminated(declare_box, dpath, id, datatyp, tparams, my_dt, variants, v) ==
    LET vid == is_variant_ident(my_dt, variants[v].name)
        pre == <<expr_has_type(x_var, id), expr_has_type(y_var, id),
                 ident_apply(vid, <<unbox_x(declare_box, dpath)>>),
                 ident_apply(vid, <<unbox_y(dpath)>>)>>
               \o [k \in 1..Len(variants[v].fields) |->
                      FieldEq(declare_box, dpath, my_dt, variants[v], variants[v].fields[k])]
    IN  eq_command(variant_ident(my_dt, variants[v].name), pre, id, datatyp, tparams)

VariantExtEqualAxiom(declare_box, dpath, id, datatyp, tparams, my_dt, variants, v) ==
    LET has_x == expr_has_type(x_var, id)
        has_y == expr_has_type(y_var, id)
        vid == is_variant_ident(my_dt, variants[v].name)
        pre == <<has_x, has_y>>
               \o (IF Len(variants) > 1
                   THEN <<ident_apply(vid, <<unbox_x(declare_box, dpath)>>),
                          ident_apply(vid, <<unbox_y(dpath)>>)>>
                   ELSE <<>>)
               \o [k \in 1..Len(variants[v].fields) |->
                      FieldEq(declare_box, dpath, my_dt, variants[v], variants[v].fields[k])]
    IN  eq_command(variant_ident(my_dt, variants[v].name), pre, id, datatyp, tparams)

FnSpecExtEqualAxiom(declare_box, dpath, id, datatyp, tparams) ==
    LET has_x == expr_has_type(x_var, id)
        has_y == expr_has_type(y_var, id)
        args == FnSpecArgs(tparams)
        xapp == ApplyFun(unbox_x(declare_box, dpath), args)
        yapp == ApplyFun(unbox_y(dpath), args)
        ret_ids == typ_to_id(TypArgs(tparams)[Len(tparams)])
        ext_eq == str_apply("ext_eq", <<deep_var, ret_ids, xapp, yapp>>)
        bind == func_bind_trig(
                    path_as_friendly_rust_name(dpath) \o <<"inner", QID_EXT_EQUAL>>,
                    <<>>, FnSpecParams(tparams, datatyp), <<ext_eq>>)
        pre == <<has_x, has_y,
                 mk_bind_expr(bind, mk_implies(mk_and(FnSpecPre(tparams)), ext_eq))>>
    IN  eq_command(path_as_friendly_rust_name(dpath), pre, id, datatyp, tparams)

ExtEqualAxioms(kind, add_ext_equal, declare_box, dpath, id, datatyp, tparams, variants) ==
    IF add_ext_equal
    THEN [v \in 1..Len(variants) |->
             VariantExtEqualAxiom(declare_box, dpath, id, datatyp, tparams, kind[2], variants, v)]
         \o (IF kind[1] = "FnSpec"
             THEN <<FnSpecExtEqualAxiom(declare_box, dpath, id, datatyp, tparams)>>
             ELSE <<>>)
    ELSE <<>>

----------------------------------------------------------------------------
\* The internal errors of datatype_or_fun_to_air_commands: the call panics
\* and returns nothing.

\* add_height should only be for DtKind::Dt.
HeightPanics(kind, add_height) == add_height /\ kind[1] # "Dt"

\* The loop bound tparams.len() - 1 of the closure parameters, a usize: with
\* no type parameter the subtraction overflows, or wraps and typ_args[0] is
\* out of bounds.
FnSpecUnderflows(kind, tparams) == kind[1] = "FnSpec" /\ Len(tparams) = 0

\* variants should only be for DtKind::Dt.
VariantsPanic(kind, add_ext_equal, variants) ==
    add_ext_equal /\ variants # <<>> /\ kind[1] # "Dt"

\* A faulty ext_equal section: the field types are not inspected.
FieldExtEqualNeverPanics(kind, add_ext_equal, typ) == FALSE

\* The ext_equal section on one field: uses_ext_equal, then typ_to_id.
FieldExtEqualPanics(kind, add_ext_equal, typ) ==
    /\ add_ext_equal
    /\ kind[1] = "Dt"
    /\ \/ uses_ext_equal_panics(typ)
       \/ uses_ext(typ, kind[2]) /\ typ_to_id_panics(typ)

datatype_or_fun_panics(kind, add_height, add_ext_equal, variants, spec) ==
    \/ HeightPanics(kind, add_height)
    \/ VariantsPanic(kind, add_ext_equal, variants)
    \/ \E v \in 1..Len(variants) :
          \E k \in 1..Len(variants[v].fields) :
             LET field == variants[v].fields[k]
                 typ == SpecFieldTyp(spec, k, field)
             IN  \/ typ_to_air_panics(typ)
                 \/ HasInvariant(kind)
                    /\ (typ_invariant_panics(field.typ) \/ typ_invariant_panics(typ))
                 \/ FieldExtEqualPanics(kind, add_ext_equal, field.typ)

----------------------------------------------------------------------------
\* datatype_or_fun_to_air_commands: what one call appends to the four
\* buckets it is handed.

datatype_or_fun_to_air_commands(kind, dpath, dtyp, dtyp_id, datatyp, tparams, variants,
                                declare_box_arg, add_height, add_ext_equal, spec) ==
    LET declare_box == DeclareBox(declare_box_arg, spec)
        id == TypeId(dtyp_id, dpath, tparams)
    IN  [field |-> FieldCommands(dpath, dtyp, variants, spec),
         token |-> TokenCommands(dpath, dtyp_id, tparams),
         box |-> BoxCommands(declare_box, dpath, dtyp),
         axiom |->
            BoxAxioms(declare_box, dpath, id, datatyp, tparams)
            \o FnSpecAxioms(kind, declare_box, dpath, id, datatyp, tparams)
            \o VariantAxioms(kind, declare_box, dpath, id, datatyp, tparams, variants, spec)
            \o HasTypeAlwaysAxioms(kind, declare_box, dpath, id, datatyp, tparams)
            \o HeightAxioms(kind, add_height, dpath, tparams, variants)
            \o ExtEqualAxioms(kind, add_ext_equal, declare_box, dpath, id, datatyp,
                              tparams, variants)]

----------------------------------------------------------------------------
\* crate::prelude templates instantiated by the orchestrator.

array_functions(box) == <<Cmd("Prelude", <<"array">>, <<box>>, <<>>)>>
strslice_functions(name) == <<Cmd("Prelude", <<"strslice">>, <<name>>, <<>>)>>

----------------------------------------------------------------------------
\* The input of one run.

\* The programs: up to n datatypes that follow one another in the catalog.
Windows(n) ==
    {<<>>} \cup
    UNION {{[k \in 1..len |-> c + k - 1] : c \in 1..Len(Catalog) - len + 1} : len \in 1..n}

MkDatatype(d, transparency, ext_equal) ==
    [name |-> d.name, typ_params |-> d.typ_params, variants |-> d.variants,
     transparency |-> transparency, ext_equal |-> ext_equal]

\* A type whose invariant does not depend on other datatypes.
DirectRefined(typ) ==
    LET t == undecorate_typ(typ) IN
    \/ t[1] \in {"TypParam", "Boxed", "SpecFn", "Projection"}
    \/ t[1] = "Int" /\ t # TInt

\* crate::context: the transparent datatypes with a refined field, given the
\* set found so far.
RECURSIVE DatatypesInvs(_, _, _)
DatatypesInvs(dts, found, n) ==
    IF n = 0 THEN found
    ELSE DatatypesInvs(dts,
            {dts[k].name : k \in {m \in 1..Len(dts) :
                /\ is_datatype_transparent(SourceModule, dts[m])
                /\ \E v \in 1..Len(dts[m].variants) :
                     \E f \in 1..Len(dts[m].variants[v].fields) :
                        LET typ == undecorate_typ(dts[m].variants[v].fields[f].typ) IN
                        \/ DirectRefined(typ)
                        \/ typ[1] = "Datatype" /\ typ[2] \in found}},
            n - 1)

\* The mono type of an abstract datatype: all parameters instantiated.  The
\* program uses every abstract datatype at this instantiation.
MonoOf(d) == TDatatype(d.name, [k \in 1..Len(d.typ_params) |-> TInt])

FnDefFun == <<"f">>
FuncMap == [fun \in {FnDefFun} |-> [typ_params |-> <<"A">>]]
\* The function map of a crate the function was pruned from.
PrunedFuncMap == [fun \in {} |-> [typ_params |-> <<>>]]

\* The library datatypes the chosen datatypes mention: they are part of the
\* program too.
Library ==
    <<MkDatatype(OptionDt, WhenVisible(None), TRUE), MkDatatype(MapDt, Never, TRUE)>>
LibraryFor(dts) ==
    SelectSeq(Library,
              LAMBDA l : \E k \in 1..Len(dts) :
                            l.name \in DtMentions(dts[k]) /\ l.name # dts[k].name)

\* The specialization table: no entries (n = -1), or for every datatype an
\* entry with its first n specializations.
SpecTable(dts, n) ==
    [p \in {dts[k].name : k \in {m \in 1..Len(dts) : n >= 0}} |-> [m \in 1..n |-> SpecOf(m)]]

\* A faulty choice of specializations: the generic encoding is made in
\* addition to the required ones.
SpecsOfWithGeneric(dt) ==
    LET specs == IF dt \in DOMAIN specializations THEN specializations[dt] ELSE <<>>
    IN  <<DefaultSpec>> \o specs

\* The specializations a datatype is encoded under.
SpecsOf(dt) ==
    LET specs == IF dt \in DOMAIN specializations THEN specializations[dt] ELSE <<>>
    IN  IF specs = <<>> THEN <<DefaultSpec>> ELSE specs

\* Loop control: the position at or after (p, a, b) that has work to do.
RECURSIVE Position(_, _, _)
Position(p, a, b) ==
    CASE p = "spec_fn" /\ a > Len(ctx.spec_fn_types) -> <<"array", 1, 1>>
      [] p = "mono" /\ a > Len(ctx.mono_types) -> Position("datatypes", 1, 1)
      [] p = "specs" /\ b > Len(SpecsOf(datatypes[a].name)) -> Position("datatypes", a + 1, 1)
      [] p = "datatypes" /\ a > Len(datatypes) -> Position("fndef", 1, 1)
      [] p = "fndef" /\ a > Len(ctx.fndef_types) -> <<"merge", 1, 1>>
      [] OTHER -> <<p, a, b>>

Goto(p, a, b) ==
    /\ pc' = Position(p, a, b)[1]
    /\ i' = Position(p, a, b)[2]
    /\ j' = Position(p, a, b)[3]

Init ==
    /\ \E idxs \in Windows(MaxDatatypes) :
         \E tr \in [1..Len(idxs) -> Transparencies],
            ee \in [1..Len(idxs) -> BOOLEAN],
            nspecs \in {-1, 0, MaxSpecs},
            strslice \in BOOLEAN, uses_array \in BOOLEAN,
            arities \in {0, MaxArity + 1},
            pruned \in BOOLEAN :
           LET chosen == [k \in 1..Len(idxs) |-> MkDatatype(Catalog[idxs[k]], tr[k], ee[k])]
               dts == chosen \o LibraryFor(chosen)
           IN
           /\ idxs = <<>> => nspecs = -1
           /\ datatypes = dts
           /\ specializations = SpecTable(chosen, nspecs)
           /\ ctx = [module |-> SourceModule,
                     datatype_graph |-> DatatypeGraph(dts),
                     spec_fn_types |-> [n \in 1..arities |-> n - 1],
                     uses_array |-> uses_array,
                     mono_types |->
                        Concat([k \in 1..Len(idxs) |->
                                   IF is_datatype_transparent(SourceModule, dts[k])
                                   THEN <<>> ELSE <<MonoOf(dts[k])>>])
                        \o (IF strslice THEN <<StrSliceMonotyp>> ELSE <<>>),
                     datatypes_with_invariant |-> DatatypesInvs(dts, {}, Len(dts)),
                     fndef_types |-> <<FnDefFun>>,
                     func_map |-> IF pruned THEN PrunedFuncMap ELSE FuncMap]
    /\ pc = IF ctx.spec_fn_types = <<>> THEN "array" ELSE "spec_fn"
    /\ i = 1
    /\ j = 1
    /\ transparent_air_datatypes = <<>>
    /\ opaque_sort_commands = <<>>
    /\ token_commands = <<>>
    /\ box_commands = <<>>
    /\ field_commands = <<>>
    /\ axiom_commands = <<>>
    /\ commands = <<>>
    /\ encoded = {}
    /\ PointsToIdle /\ RawIdle /\ LayoutIdle /\ DeriveIdle

----------------------------------------------------------------------------
\* datatypes_and_primitives_to_air.

\* A faulty unwinding: the error is swallowed and the pass goes on to return
\* what the buckets hold.
AbortRecovers ==
    /\ pc' = "merge"
    /\ UNCHANGED <<i, j, token_commands, box_commands, field_commands, axiom_commands>>

\* A panic unwinds the pass: nothing is returned, and the buckets, which are
\* locals of the pass, are dropped as they are.
Abort ==
    /\ pc' = "aborted"
    /\ UNCHANGED <<i, j, token_commands, box_commands, field_commands, axiom_commands>>

\* A faulty accumulation: the commands of a call are put in front of those of
\* the earlier calls.
EmitInFront(r) ==
    /\ field_commands' = r.field \o field_commands
    /\ token_commands' = r.token \o token_commands
    /\ box_commands' = r.box \o box_commands
    /\ axiom_commands' = r.axiom \o axiom_commands

\* Append what one call of datatype_or_fun_to_air_commands produced.
Emit(r) ==
    /\ field_commands' = field_commands \o r.field
    /\ token_commands' = token_commands \o r.token
    /\ box_commands' = box_commands \o r.box
    /\ axiom_commands' = axiom_commands \o r.axiom

\* A faulty family: the parameter for the return type is left out.
SpecFnTparamsNoRet(n) == [k \in 1..n |-> prefix_tuple_param(k - 1)]

\* The tuple parameters of the closure family of arity n.
SpecFnTparams(n) == [k \in 1..n + 1 |-> prefix_tuple_param(k - 1)]

\* A faulty call: the family is named after the number of its type parameters.
SpecFnCallNamedByTparams(n) ==
    datatype_or_fun_to_air_commands(
        <<"FnSpec">>, prefix_spec_fn_type(n + 1), FUN, None, TSpecFn(<<>>, TBool),
        SpecFnTparams(n), <<>>, TRUE, FALSE, TRUE, DefaultSpec)

SpecFnCall(n) ==
    datatype_or_fun_to_air_commands(
        <<"FnSpec">>, prefix_spec_fn_type(n), FUN, None, TSpecFn(<<>>, TBool),
        SpecFnTparams(n), <<>>, TRUE, FALSE, TRUE, DefaultSpec)

\* One iteration of the loop over ctx.spec_fn_types.
SpecFnStep ==
    /\ pc = "spec_fn"
    /\ i <= Len(ctx.spec_fn_types)
    /\ IF \/ FnSpecUnderflows(<<"FnSpec">>, SpecFnTparams(ctx.spec_fn_types[i]))
          \/ datatype_or_fun_panics(<<"FnSpec">>, FALSE, TRUE, <<>>, DefaultSpec)
       THEN Abort
       ELSE Emit(SpecFnCall(ctx.spec_fn_types[i])) /\ Goto("spec_fn", i + 1, j)
    /\ UNCHANGED <<others, inputs, transparent_air_datatypes, opaque_sort_commands, commands>>

ArrayCall ==
    datatype_or_fun_to_air_commands(
        <<"Array">>, array_type, FUN, <<"Primitive", "Array">>, TPrimitive("Array", <<>>),
        <<"T", "N">>, <<>>, TRUE, FALSE, TRUE, DefaultSpec)

\* The array encoding, when the program uses arrays.
ArrayStep ==
    /\ pc = "array"
    /\ IF ctx.uses_array /\ datatype_or_fun_panics(<<"Array">>, FALSE, TRUE, <<>>, DefaultSpec)
       THEN Abort
       ELSE /\ IF ctx.uses_array
               THEN Emit(ArrayCall)
               ELSE UNCHANGED <<field_commands, token_commands, box_commands, axiom_commands>>
            /\ Goto("mono", 1, j)
    /\ UNCHANGED <<others, inputs, transparent_air_datatypes, opaque_sort_commands, commands>>

MonotypCall(monotyp) ==
    LET dpath == monotyp_to_path(monotyp) IN
    datatype_or_fun_to_air_commands(
        <<"Monotyp">>, dpath, path_to_air_ident(dpath), <<"Expr", monotyp_to_id(monotyp)>>,
        monotyp_to_typ(monotyp), <<>>, <<>>, TRUE, FALSE, FALSE, DefaultSpec)

\* One iteration of the loop over ctx.mono_types.
MonotypStep ==
    /\ pc = "mono"
    /\ i <= Len(ctx.mono_types)
    /\ IF datatype_or_fun_panics(<<"Monotyp">>, FALSE, FALSE, <<>>, DefaultSpec)
       THEN Abort /\ UNCHANGED opaque_sort_commands
       ELSE /\ opaque_sort_commands' =
                  Append(opaque_sort_commands,
                         DeclSort(path_to_air_ident(monotyp_to_path(ctx.mono_types[i]))))
            /\ Emit(MonotypCall(ctx.mono_types[i]))
            /\ Goto("mono", i + 1, j)
    /\ UNCHANGED <<others, inputs, transparent_air_datatypes, commands>>

\* The head of one iteration of the loop over the datatypes: the AIR
\* datatypes of a transparent datatype, one per specialization.
DatatypeStep ==
    /\ pc = "datatypes"
    /\ i <= Len(datatypes)
    /\ LET datatype == datatypes[i]
           specs == SpecsOf(datatype.name)
       IN  IF /\ is_datatype_transparent(ctx.module, datatype)
              /\ \E k \in 1..Len(specs) : datatype_to_air_panics(datatype, specs[k])
           THEN Abort /\ UNCHANGED transparent_air_datatypes
           ELSE /\ transparent_air_datatypes' =
                      IF is_datatype_transparent(ctx.module, datatype)
                      THEN transparent_air_datatypes
                           \o [k \in 1..Len(specs) |-> datatype_to_air(datatype, specs[k])]
                      ELSE transparent_air_datatypes
                /\ Goto("specs", i, 1)
                /\ UNCHANGED <<token_commands, box_commands, field_commands, axiom_commands>>
    /\ UNCHANGED <<others, inputs, opaque_sort_commands, commands>>

DatatypeCall(datatype, spec) ==
    LET dt == datatype.name
        is_transparent == is_datatype_transparent(ctx.module, datatype)
        dpath == mangle_path(spec, encode_dt_as_path(dt))
    IN  datatype_or_fun_to_air_commands(
            <<"Dt", dt>>, mangle_path(spec, dpath), spec_dt_to_air_ident(spec, dt), None,
            TDatatype(dt, TypArgs(datatype.typ_params)), datatype.typ_params,
            datatype.variants, is_transparent, is_transparent,
            is_transparent /\ datatype.ext_equal, spec)

DatatypePanics(datatype, spec) ==
    LET is_transparent == is_datatype_transparent(ctx.module, datatype) IN
    datatype_or_fun_panics(<<"Dt", datatype.name>>, is_transparent,
                           is_transparent /\ datatype.ext_equal, datatype.variants, spec)

\* One iteration of the inner loop over the specializations of a datatype.
DatatypeSpecStep ==
    /\ pc = "specs"
    /\ j <= Len(SpecsOf(datatypes[i].name))
    /\ IF DatatypePanics(datatypes[i], SpecsOf(datatypes[i].name)[j])
       THEN Abort
       ELSE /\ Emit(DatatypeCall(datatypes[i], SpecsOf(datatypes[i].name)[j]))
            /\ Goto("specs", i, j + 1)
    /\ UNCHANGED <<others, inputs, transparent_air_datatypes, opaque_sort_commands, commands>>

\* A faulty lookup: a function missing from the pruned crate is let through.
FnDefLookupNeverPanics(fun) == FALSE

\* expected fndef function in pruned crate
FnDefPanics(fun) == fun \notin DOMAIN ctx.func_map

\* The type parameters of a function, none when it is not in the map.
FnDefTparams(fun) ==
    IF fun \in DOMAIN ctx.func_map THEN ctx.func_map[fun].typ_params ELSE <<>>

\* The function-identity token of a function.
FnDefToken(fun) ==
    fun_or_const(prefix_fndef_type_id(fun),
                 Concat([k \in 1..Len(FnDefTparams(fun)) |-> types]), TYPE)

\* One iteration of the loop over ctx.fndef_types.
FnDefStep ==
    /\ pc = "fndef"
    /\ i <= Len(ctx.fndef_types)
    /\ IF FnDefPanics(ctx.fndef_types[i])
       THEN Abort
       ELSE /\ token_commands' =
                  Append(token_commands, FnDefToken(ctx.fndef_types[i]))
            /\ Goto("fndef", i + 1, j)
            /\ UNCHANGED <<box_commands, field_commands, axiom_commands>>
    /\ UNCHANGED <<others, inputs, transparent_air_datatypes, opaque_sort_commands, commands>>

UsesStrSlice ==
    \E k \in 1..Len(ctx.mono_types) :
        ctx.mono_types[k][1] = "Primitive" /\ ctx.mono_types[k] = StrSliceMonotyp

array_commands ==
    IF ctx.uses_array THEN array_functions(prefix_box(array_type)) ELSE <<>>
strslice_commands ==
    IF UsesStrSlice
    THEN strslice_functions(path_to_air_ident(monotyp_to_path(StrSliceMonotyp)))
    ELSE <<>>

\* A faulty concatenation: the datatype group is left out when it is empty.
ConcatCommandsOmitEmptyGroup ==
    opaque_sort_commands
    \o (IF transparent_air_datatypes = <<>>
        THEN <<>> ELSE <<DeclDatatypes(transparent_air_datatypes)>>)
    \o field_commands
    \o token_commands
    \o box_commands
    \o axiom_commands
    \o array_commands
    \o strslice_commands

\* The concatenation of the buckets into the returned stream.
ConcatCommands ==
    opaque_sort_commands
    \o <<DeclDatatypes(transparent_air_datatypes)>>
    \o field_commands
    \o token_commands
    \o box_commands
    \o axiom_commands
    \o array_commands
    \o strslice_commands

\* The prelude extensions and the concatenation of the buckets.
Merge ==
    /\ pc = "merge"
    /\ commands' = ConcatCommands
    /\ pc' = "done"
    /\ UNCHANGED <<others, inputs, i, j, transparent_air_datatypes, opaque_sort_commands,
                   token_commands, box_commands, field_commands, axiom_commands>>

Next ==
    \/ SpecFnStep
    \/ ArrayStep
    \/ MonotypStep
    \/ DatatypeStep
    \/ DatatypeSpecStep
    \/ FnDefStep
    \/ Merge

Spec == Init /\ [][Next]_vars

Done == pc = "done"

----------------------------------------------------------------------------
\* Reading commands back: the parts of an axiom, and the class of a
\* declaration, which its identifier shows.

IsAxiom(c) == c.kind = "Axiom"
AxiomQid(c) == c.body[2][2]
QidKind(c) == AxiomQid(c)[Len(AxiomQid(c))]
AxiomTparams(c) == c.body[2][3]
AxiomParams(c) == c.body[2][4]
AxiomTrigs(c) == c.body[2][5]
AxiomBody(c) == c.body[3]

IsDeclFun(c) == c.kind \in {"Fun", "Const"}
IsTokenName(n) == n # <<>> /\ n[1] \in {"TYPE%", "FNDEF%"}
IsBoxName(n) == n # <<>> /\ n[1] = "Poly%"
IsUnboxName(n) == n # <<>> /\ n[1] = "%Poly%"
IsInternalSelector(n) == Len(n) >= 2 /\ n[Len(n) - 1] = "?"
IsWrapperName(n) == Len(n) >= 4 /\ n[Len(n) - 1] = "/" /\ n[Len(n) - 3] = "/"

\* The position of a command's class in the required order.
Rank(c) ==
    IF c.kind = "Sort" THEN 1
    ELSE IF c.kind = "Datatypes" THEN 2
    ELSE IF IsDeclFun(c)
         THEN (IF IsTokenName(c.name) THEN 4
               ELSE IF IsBoxName(c.name) \/ IsUnboxName(c.name) THEN 5
               ELSE 3)
    ELSE IF IsAxiom(c) THEN 6
    ELSE IF c.name = <<"array">> THEN 7
    ELSE 8

\* The variables of an expression.
RECURSIVE VarsOf(_)
VarsOf(e) ==
    IF e[1] = "var" THEN {e[2][1]}
    ELSE UNION {VarsOf(ExprChildren(e)[n]) : n \in 1..Len(ExprChildren(e))}

\* What one step appended to a bucket.
Appended(old, new) == SubSeq(new, Len(old) + 1, Len(new))
NewAxioms == Appended(axiom_commands, axiom_commands')
NewBox == Appended(box_commands, box_commands')
NewTokens == Appended(token_commands, token_commands')
NewFields == Appended(field_commands, field_commands')
NewAxiomsOfKind(q) == SelectSeq(NewAxioms, LAMBDA c : QidKind(c) = q)

----------------------------------------------------------------------------
\* C1: in the returned stream the sort declarations come first, then the
\* grouped datatype declaration, the field-accessor declarations, the type-id
\* tokens, the box/unbox declarations, the axioms, the array prelude and the
\* string-slice prelude; the grouped datatype declaration occurs exactly
\* once, also when no datatype is transparent.
C1_StreamOrdered ==
    Done =>
        /\ \A a \in 1..Len(commands) - 1 : Rank(commands[a]) <= Rank(commands[a + 1])
        /\ Cardinality({a \in 1..Len(commands) : commands[a].kind = "Datatypes"}) = 1

\* A finished run with no transparent datatype whose stream holds a command
\* of every class.
C1_Witness ==
    /\ Done
    /\ transparent_air_datatypes = <<>>
    /\ {Rank(commands[a]) : a \in 1..Len(commands)} = 1..8

\* C2: every field-accessor wrapper, type-id token, box function and unbox
\* function applied inside an axiom of the returned stream is declared by an
\* earlier command of the stream.
C2_AppliedIsDeclaredEarlier ==
    Done =>
        \A a \in 1..Len(commands) :
            IsAxiom(commands[a]) =>
                \A h \in Heads(commands[a].body) :
                    (IsWrapperName(h) \/ IsTokenName(h) \/ IsBoxName(h) \/ IsUnboxName(h))
                    => \E b \in 1..a - 1 : IsDeclFun(commands[b]) /\ commands[b].name = h

\* The step encodes a datatype under a non-empty specialization.
EncodesSpecialized ==
    pc = "specs" /\ ~SpecIsEmpty(SpecsOf(datatypes[i].name)[j])

\* C3: encoding a (type, specialization) pair whose specialization is
\* non-empty adds no box declaration, no unbox declaration, no box round-trip
\* axiom and no unbox round-trip axiom, whatever declare_box flag is passed.
C3_NoBoxingWhenSpecialized ==
    [][EncodesSpecialized =>
        /\ NewBox = <<>>
        /\ NewAxiomsOfKind(QID_BOX_AXIOM) = <<>>
        /\ NewAxiomsOfKind(QID_UNBOX_AXIOM) = <<>>]_vars

\* A transparent datatype (declare_box passed as true) has just been encoded
\* under a non-empty specialization.
C3_Witness ==
    /\ pc = "specs"
    /\ j > 1
    /\ is_datatype_transparent(ctx.module, datatypes[i])
    /\ ~SpecIsEmpty(SpecsOf(datatypes[i].name)[j - 1])
    /\ axiom_commands # <<>>

\* The step encodes a datatype with boxing skipped.
EncodesUnboxed ==
    /\ pc = "specs"
    /\ ~DeclareBox(is_datatype_transparent(ctx.module, datatypes[i]),
                   SpecsOf(datatypes[i].name)[j])

\* The path an encoding step names its type by, read from its type-id token.
EncodedPath == Tail(NewTokens[1].name)

\* C4: when boxing is skipped for an encoding, no axiom emitted for that
\* encoding applies the box or the unbox function of that type, for either
\* quantified value.
C4_IdentityWhenUnboxed ==
    [][EncodesUnboxed =>
        \A n \in 1..Len(NewAxioms) :
            /\ prefix_box(EncodedPath) \notin Heads(NewAxioms[n].body)
            /\ prefix_unbox(EncodedPath) \notin Heads(NewAxioms[n].body)]_vars

\* C5: an encoding that declares a box function emits exactly one box axiom,
\* 'forall x. x == unbox(box(x))', over no type parameters and triggered on
\* box(x); an encoding that declares none emits no box axiom.
C5_BoxAxiom ==
    [][IF NewBox # <<>>
       THEN /\ Len(NewBox) = 2
            /\ IsBoxName(NewBox[1].name)
            /\ NewBox[2].name = prefix_unbox(Tail(NewBox[1].name))
            /\ Len(NewAxiomsOfKind(QID_BOX_AXIOM)) = 1
            /\ LET c == NewAxiomsOfKind(QID_BOX_AXIOM)[1]
                   bx == ident_apply(NewBox[1].name, <<x_var>>)
               IN  /\ AxiomTparams(c) = <<>>
                   /\ Len(AxiomParams(c)) = 1
                   /\ AxiomParams(c)[1].name = "x"
                   /\ AxiomTrigs(c) = <<bx>>
                   /\ AxiomBody(c) = mk_eq(x_var, ident_apply(NewBox[2].name, <<bx>>))
       ELSE NewAxiomsOfKind(QID_BOX_AXIOM) = <<>>]_vars

\* A finished run whose stream holds the box axiom of a datatype.
C5_Witness ==
    /\ Done
    /\ \E d \in 1..Len(datatypes), a \in 1..Len(commands) :
          /\ IsAxiom(commands[a])
          /\ AxiomQid(commands[a]) = datatypes[d].name \o <<QID_BOX_AXIOM>>

\* C6: an encoding that declares a box function emits exactly one unbox
\* axiom, 'forall typs, x. has_type(x, T(typs)) ==> x == box(unbox(x))',
\* over the type parameters of T(typs), guarded by the membership term and
\* triggered on it; an encoding that declares none emits no unbox axiom.
C6_UnboxAxiom ==
    [][IF NewBox # <<>>
       THEN /\ Len(NewAxiomsOfKind(QID_UNBOX_AXIOM)) = 1
            /\ LET c == NewAxiomsOfKind(QID_UNBOX_AXIOM)[1]
                   has == AxiomBody(c)[2]
                   ubx == ident_apply(NewBox[2].name, <<x_var>>)
               IN  /\ AxiomBody(c)[1] = "=>"
                   /\ has[1] = "has_type"
                   /\ has[2] = x_var
                   /\ NewTokens # <<>> => has[3][2] = NewTokens[1].name
                   /\ Range(AxiomTparams(c)) = VarsOf(has[3])
                   /\ Len(AxiomParams(c)) = 1
                   /\ AxiomParams(c)[1].name = "x"
                   /\ AxiomTrigs(c) = <<has>>
                   /\ AxiomBody(c)[3] = mk_eq(x_var, ident_apply(NewBox[1].name, <<ubx>>))
       ELSE NewAxiomsOfKind(QID_UNBOX_AXIOM) = <<>>]_vars

\* A finished run whose stream holds the unbox axiom of a datatype with
\* type parameters.
C6_Witness ==
    /\ Done
    /\ \E d \in 1..Len(datatypes), a \in 1..Len(commands) :
          /\ IsAxiom(commands[a])
          /\ AxiomQid(commands[a]) = datatypes[d].name \o <<QID_UNBOX_AXIOM>>
          /\ AxiomTparams(commands[a]) # <<>>

\* The step encodes a type with no visible refinements: a datatype outside
\* datatypes_with_invariant, or a monomorphized opaque type.
EncodesUnrefined ==
    \/ pc = "specs" /\ datatypes[i].name \notin ctx.datatypes_with_invariant
    \/ pc = "mono"

\* The axiom is the blanket axiom 'forall typs, x. has_type(box(x), T(typs))'.
IsHasTypeAlways(c) ==
    /\ QidKind(c) = QID_HAS_TYPE_ALWAYS
    /\ AxiomBody(c)[1] = "has_type"
    /\ AxiomTrigs(c) = <<AxiomBody(c)>>

\* C7: encoding a type with no visible refinements (opaque datatypes,
\* datatypes encoded under a specialization and monomorphized opaque types
\* included) emits the unconditional axiom
\* 'forall typs, v. has_type(box(v), T(typs))'.
C7_BlanketMembership ==
    [][EncodesUnrefined =>
        \E n \in 1..Len(NewAxioms) : IsHasTypeAlways(NewAxioms[n])]_vars

\* The arguments of a variant's constructor in its constructor axiom.
CtorArgs(variant) ==
    [k \in 1..Len(variant.fields) |-> ident_var("_" \o variant.fields[k].name)]

\* The type invariants of exactly those fields of a variant that have one.
CtorInvariants(variant) ==
    Somes([k \in 1..Len(variant.fields) |->
              typ_invariant(variant.fields[k].typ, CtorArgs(variant)[k])])

\* e is the variant's constructor applied to its arguments.
IsCtorTerm(e, variant) ==
    /\ e[1] = "apply"
    /\ e[2][Len(e[2])] = variant.name
    /\ e[3] = CtorArgs(variant)

\* e is box(ctor(args)), box being the identity when the step declares none.
IsBoxedCtorTerm(e, variant) ==
    IF NewBox = <<>> THEN IsCtorTerm(e, variant)
    ELSE /\ e[1] = "apply"
         /\ e[2] = NewBox[1].name
         /\ Len(e[3]) = 1
         /\ IsCtorTerm(e[3][1], variant)

\* c is the constructor-invariant axiom of the variant of the datatype being
\* encoded.
IsConstructorAxiomOf(c, datatype, variant) ==
    LET concl == AxiomBody(c)[3] IN
    /\ AxiomBody(c)[1] = "=>"
    /\ AxiomBody(c)[2] = mk_and(CtorInvariants(variant))
    /\ concl[1] = "has_type"
    /\ IsBoxedCtorTerm(concl[2], variant)
    /\ concl[3] = ident_apply(NewTokens[1].name,
                              [k \in 1..Len(datatype.typ_params) |->
                                  ident_var(datatype.typ_params[k])])
    /\ AxiomTrigs(c) = <<concl>>

\* C8: encoding a datatype in datatypes_with_invariant emits no blanket
\* has_type axiom and exactly one constructor-invariant axiom per variant,
\* whose antecedent is the conjunction of the type invariants of exactly the
\* fields that have one and whose conclusion and trigger are
\* has_type(box(ctor(args)), T(typs)); encoding a datatype outside that set
\* emits no constructor-invariant and no field-invariant axiom; closure
\* families and arrays never get the blanket axiom.
C8_ConstructorInvariants ==
    [][/\ pc = "specs" /\ pc' # "aborted" =>
            LET datatype == datatypes[i]
                ctors == NewAxiomsOfKind(QID_CONSTRUCTOR)
            IN  IF datatype.name \in ctx.datatypes_with_invariant
                THEN /\ NewAxiomsOfKind(QID_HAS_TYPE_ALWAYS) = <<>>
                     /\ Len(ctors) = Len(datatype.variants)
                     /\ \A v \in 1..Len(datatype.variants) :
                           IsConstructorAxiomOf(ctors[v], datatype, datatype.variants[v])
                ELSE /\ ctors = <<>>
                     /\ NewAxiomsOfKind(QID_INVARIANT) = <<>>
       /\ pc \in {"spec_fn", "array"} => NewAxiomsOfKind(QID_HAS_TYPE_ALWAYS) = <<>>]_vars

\* A finished run that encoded a datatype with refinements, one of whose
\* variants has both a field with a type invariant and a field without.
C8_Witness ==
    /\ Done
    /\ \E d \in 1..Len(datatypes) :
          /\ datatypes[d].name \in ctx.datatypes_with_invariant
          /\ \E v \in 1..Len(datatypes[d].variants) :
                /\ CtorInvariants(datatypes[d].variants[v]) # <<>>
                /\ Len(CtorInvariants(datatypes[d].variants[v]))
                      < Len(datatypes[d].variants[v].fields)
          /\ \E a \in 1..Len(commands) :
                /\ IsAxiom(commands[a])
                /\ QidKind(commands[a]) = QID_CONSTRUCTOR
                /\ AxiomQid(commands[a])[1] = datatypes[d].name[1]

\* The internal selector behind a wrapper function.
InternalOf(w) == SubSeq(w, 1, Len(w) - 1) \o <<"?", w[Len(w)]>>

\* The number of fields of all variants of a datatype.
FieldCount(datatype) ==
    Len(Concat([v \in 1..Len(datatype.variants) |-> datatype.variants[v].fields]))

\* C9: encoding a (type, specialization) pair emits, for every field of every
\* variant, exactly one wrapper function declaration and exactly one bridging
\* axiom 'wrapper(x) == internal_selector(x)' triggered only on wrapper(x);
\* the internal selector is applied in no other axiom and in no trigger.
C9_WrapperBridging ==
    [][/\ pc = "specs" /\ pc' # "aborted" =>
            LET bridges == NewAxiomsOfKind(QID_ACCESSOR) IN
            /\ Len(NewFields) = FieldCount(datatypes[i])
            /\ Len(bridges) = FieldCount(datatypes[i])
            /\ \A m, n \in 1..Len(NewFields) :
                  NewFields[m].name = NewFields[n].name => m = n
            /\ \A n \in 1..Len(NewFields) :
                  LET w == ident_apply(NewFields[n].name, <<x_var>>) IN
                  /\ IsWrapperName(NewFields[n].name)
                  /\ AxiomTrigs(bridges[n]) = <<w>>
                  /\ AxiomBody(bridges[n]) =
                        mk_eq(w, ident_apply(InternalOf(NewFields[n].name), <<x_var>>))
       /\ \A n \in 1..Len(NewAxioms) :
            /\ \A h \in TrigHeads(NewAxioms[n].body) : ~IsInternalSelector(h)
            /\ QidKind(NewAxioms[n]) # QID_ACCESSOR =>
                  \A h \in Heads(NewAxioms[n].body) : ~IsInternalSelector(h)]_vars

\* A transparent datatype with fields, extensional equality and height
\* axioms has just been encoded.
C9_Witness ==
    /\ pc = "specs"
    /\ j > 1
    /\ is_datatype_transparent(ctx.module, datatypes[i])
    /\ datatypes[i].ext_equal
    /\ \E a \in 1..Len(axiom_commands) : QidKind(axiom_commands[a]) = QID_ACCESSOR
    /\ \E a \in 1..Len(axiom_commands) : QidKind(axiom_commands[a]) = QID_HEIGHT
    /\ \E a \in 1..Len(axiom_commands) : QidKind(axiom_commands[a]) = QID_EXT_EQUAL

\* The identifiers an AIR datatype declares: sort, constructors, selectors.
AirIdents(dt) ==
    {dt[1]}
    \cup {dt[2][v][1] : v \in 1..Len(dt[2])}
    \cup UNION {{dt[2][v][2][k][1] : k \in 1..Len(dt[2][v][2])} : v \in 1..Len(dt[2])}

\* The identifiers generated for one (datatype, specialization) pair.
EncodingIdents(datatype, spec) ==
    LET r == DatatypeCall(datatype, spec) IN
    {c.name : c \in Range(r.field \o r.token \o r.box)}
    \cup {AxiomQid(c) : c \in Range(r.axiom)}
    \cup (IF is_datatype_transparent(ctx.module, datatype)
          THEN AirIdents(datatype_to_air(datatype, spec)) ELSE {})

\* The identifiers declared by the commands of the stream, one per
\* declaration.
DeclaredIdents ==
    Concat([a \in 1..Len(commands) |->
        IF commands[a].kind \in {"Sort", "Fun", "Const"} THEN <<commands[a].name>>
        ELSE IF commands[a].kind = "Datatypes"
        THEN Concat([d \in 1..Len(commands[a].body) |->
                 <<commands[a].body[d][1]>>
                 \o Concat([v \in 1..Len(commands[a].body[d][2]) |->
                       <<commands[a].body[d][2][v][1]>>
                       \o [k \in 1..Len(commands[a].body[d][2][v][2]) |->
                              commands[a].body[d][2][v][2][k][1]]])])
        ELSE <<>>])

\* C10: two distinct specializations of the same type encoded in one run
\* generate disjoint sets of identifiers (sort, constructors, internal
\* selectors, field wrappers, type-id token and axiom names), with boxing
\* skipped for both, and no identifier is declared twice in the stream.
C10_DisjointIdentifiers ==
    Done =>
        /\ \A d \in 1..Len(datatypes) :
              LET specs == SpecsOf(datatypes[d].name) IN
              \A a, b \in 1..Len(specs) :
                  a < b =>
                      /\ DatatypeCall(datatypes[d], specs[a]).box = <<>>
                      /\ DatatypeCall(datatypes[d], specs[b]).box = <<>>
                      /\ EncodingIdents(datatypes[d], specs[a])
                            \cap EncodingIdents(datatypes[d], specs[b]) = {}
        /\ \A m, n \in 1..Len(DeclaredIdents) :
              DeclaredIdents[m] = DeclaredIdents[n] => m = n

----------------------------------------------------------------------------
\* The step encodes a datatype and does not abort.
Encodes == pc = "specs" /\ pc' # "aborted"

\* The fields of all variants of a datatype, in emission order, each with
\* the name of its variant.
FieldsOf(datatype) ==
    Concat([v \in 1..Len(datatype.variants) |->
        [k \in 1..Len(datatype.variants[v].fields) |->
            [variant |-> datatype.variants[v].name,
             typ |-> datatype.variants[v].fields[k].typ]]])

\* The height axioms a step emitted for the field behind wrapper w.
HeightAxiomsFor(w) == SelectSeq(NewAxioms, LAMBDA c : AxiomQid(c) = w \o <<QID_HEIGHT>>)

\* The type is a type parameter or a datatype of dt's recursion component.
IsTparamOrComponent(typ, dt) ==
    LET t == undecorate_typ(typ) IN
    \/ t[1] = "TypParam"
    \/ t[1] = "Datatype" /\ in_same_scc(t[2], dt)

\* A type parameter or a datatype of dt's recursion component occurs in the
\* type.
MentionsTparamOrComponent(typ, dt) ==
    LET sub == SubTyps(typ) IN
    \E n \in 1..Len(sub) : IsTparamOrComponent(sub[n], dt)

\* c is 'forall x. is_variant(x) ==> height_lt(height(.. w(x) ..), height(.. x ..))'.
IsHeightBound(c, w, variant) ==
    LET guard == AxiomBody(c)[2]
        concl == AxiomBody(c)[3]
    IN  /\ AxiomBody(c)[1] = "=>"
        /\ guard[1] = "apply"
        /\ guard[2][1] = "is-"
        /\ guard[2][Len(guard[2])] = variant
        /\ guard[3] = <<x_var>>
        /\ concl[1] = "apply"
        /\ concl[2] = <<"height_lt">>
        /\ Len(concl[3]) = 2
        /\ concl[3][1][2] = <<"height">>
        /\ ident_apply(w, <<x_var>>) \in Range(SubExprs(concl[3][1]))
        /\ concl[3][2][2] = <<"height">>
        /\ w \notin Heads(concl[3][2])
        /\ VarsOf(concl[3][2]) = {"x"}

\* C11: encoding a transparent datatype emits exactly one height axiom,
\* guarded by the variant's discriminator and bounding the height of
\* field(x) strictly below the height of x, for every field whose type is a
\* type parameter or a datatype of the same recursion component, and none
\* for a field whose type mentions neither.
C11_HeightStrictness ==
    [][Encodes /\ is_datatype_transparent(ctx.module, datatypes[i]) =>
        LET fields == FieldsOf(datatypes[i]) IN
        \A n \in 1..Len(fields) :
            LET hs == HeightAxiomsFor(NewFields[n].name) IN
            /\ IsTparamOrComponent(fields[n].typ, datatypes[i].name) =>
                  /\ Len(hs) = 1
                  /\ IsHeightBound(hs[1], NewFields[n].name, fields[n].variant)
            /\ ~MentionsTparamOrComponent(fields[n].typ, datatypes[i].name) =>
                  hs = <<>>]_vars

\* The encoding of List with both variants is in the bucket: the tail field
\* of Cons has a height axiom.
C11_Witness ==
    /\ pc # "aborted"
    /\ \E a \in 1..Len(axiom_commands) :
          AxiomQid(axiom_commands[a]) =
             variant_field_ident(ListPath, "Cons", "1") \o <<QID_HEIGHT>>
    /\ \E d \in 1..Len(datatypes) :
          datatypes[d].name = ListPath /\ is_datatype_transparent(ctx.module, datatypes[d])

\* The datatype is recursive: one of its fields mentions its own component.
IsRecursiveDatatype(datatype) ==
    \E n \in 1..Len(FieldsOf(datatype)) : MentionsScc(FieldsOf(datatype)[n].typ, datatype.name)

\* C12: encoding a recursive datatype such as List<T> emits no height axiom
\* for a field whose type is a type parameter.
C12_NoHeightForTypeParameter ==
    [][Encodes /\ IsRecursiveDatatype(datatypes[i]) =>
        LET fields == FieldsOf(datatypes[i]) IN
        \A n \in 1..Len(fields) :
            undecorate_typ(fields[n].typ)[1] = "TypParam" =>
                HeightAxiomsFor(NewFields[n].name) = <<>>]_vars

\* C12 as amended: encoding a recursive datatype emits no height axiom for a
\* field whose type mentions neither a type parameter nor a datatype of the
\* same recursion component; a field whose type is a type parameter does get
\* one when the datatype is transparent.
C12_NoHeightForUnrelatedType ==
    [][Encodes /\ IsRecursiveDatatype(datatypes[i]) =>
        LET fields == FieldsOf(datatypes[i]) IN
        \A n \in 1..Len(fields) :
            /\ ~MentionsTparamOrComponent(fields[n].typ, datatypes[i].name) =>
                  HeightAxiomsFor(NewFields[n].name) = <<>>
            /\ /\ undecorate_typ(fields[n].typ)[1] = "TypParam"
               /\ is_datatype_transparent(ctx.module, datatypes[i])
               => HeightAxiomsFor(NewFields[n].name) # <<>>]_vars

\* The recursive datatype S, which has a field of an unrelated function
\* type, has been encoded with its height axioms.
C12_Witness ==
    /\ pc # "aborted"
    /\ \E a \in 1..Len(axiom_commands) :
          AxiomQid(axiom_commands[a]) = variant_field_ident(SPath, "S", "a") \o <<QID_HEIGHT>>
    /\ \E a \in 1..Len(field_commands) :
          field_commands[a].name = variant_field_ident(SPath, "S", "p")

----------------------------------------------------------------------------
\* How often a type satisfying the test occurs in a list of types.
CountTyps(sub, Test(_)) == Cardinality({n \in 1..Len(sub) : Test(sub[n])})

\* The datatype instantiated with its own type parameters in their order.
OwnTyp(datatype) ==
    TDatatype(datatype.name, [k \in 1..Len(datatype.typ_params) |-> TypParam(datatype.typ_params[k])])

\* The type is, under its decorations and one box, a spec function type or
\* the two-argument Map, and every type parameter that occurs in its return
\* or value type occurs as an argument of an occurrence of OwnTyp: occurrences
\* of OwnTyp do not nest, so the parameters inside them are counted by them.
IsRecursiveFunctionType(typ, datatype) ==
    LET t == undecorate_typ(typ)
        u == IF t[1] = "Boxed" THEN t[2] ELSE t
        is_fun == u[1] = "SpecFn"
        is_map == u[1] = "Datatype" /\ u[2] = MapPath /\ Len(u[3]) = 2
        ret == IF is_fun THEN u[3] ELSE u[3][2]
    IN  /\ is_fun \/ is_map
        /\ LET sub == SubTyps(ret) IN
           CountTyps(sub, LAMBDA s : s[1] = "TypParam")
             = CountTyps(sub, LAMBDA s : s = OwnTyp(datatype)) * Len(datatype.typ_params)

\* The height axiom was built with the recursive_function_field flag set: the
\* template then bounds fun_from_recursive_field(field(x)).
BuiltAsRecursiveFunctionField(c) == <<"fun_from_recursive_field">> \in Heads(AxiomBody(c))

\* C13: the height axiom of a field is built with recursive_function_field
\* set exactly when the field's type is, under decorations and one box, a
\* spec function type or the two-argument Map whose return or value type has
\* type parameters only inside the enclosing datatype instantiated with its
\* own parameters in order: set for f: FnSpec(int) -> Option<S<A, B>> of
\* S<A, B>, not set for g: FnSpec(int) -> Option<A>, nor for fields of other
\* types.
C13_RecursiveFunctionField ==
    [][Encodes =>
        LET fields == FieldsOf(datatypes[i]) IN
        \A n \in 1..Len(fields) :
            LET hs == HeightAxiomsFor(NewFields[n].name) IN
            \A a \in 1..Len(hs) :
                BuiltAsRecursiveFunctionField(hs[a])
                    <=> IsRecursiveFunctionType(fields[n].typ, datatypes[i])]_vars

\* S<A, B> has been encoded: the height axiom of f is built with the flag,
\* the one of g without it.
C13_Witness ==
    /\ pc # "aborted"
    /\ \E a \in 1..Len(axiom_commands) :
          /\ AxiomQid(axiom_commands[a]) = variant_field_ident(SPath, "S", "f") \o <<QID_HEIGHT>>
          /\ BuiltAsRecursiveFunctionField(axiom_commands[a])
    /\ \E a \in 1..Len(axiom_commands) :
          /\ AxiomQid(axiom_commands[a]) = variant_field_ident(SPath, "S", "g") \o <<QID_HEIGHT>>
          /\ ~BuiltAsRecursiveFunctionField(axiom_commands[a])

----------------------------------------------------------------------------
\* The step encodes a transparent datatype flagged ext_equal.
EncodesExtEqual ==
    /\ Encodes
    /\ is_datatype_transparent(ctx.module, datatypes[i])
    /\ datatypes[i].ext_equal

\* The type under its decorations and boxes.
RECURSIVE CoreTyp(_)
CoreTyp(t) == IF t[1] \in {"Decorate", "Boxed"} THEN CoreTyp(t[2]) ELSE t

\* The type needs extensional equality: a spec function, a type parameter,
\* a projection, an array, a slice or a datatype flagged ext_equal.
NeedsExtensionalEquality(typ) ==
    LET t == CoreTyp(typ) IN
    \/ t[1] \in {"SpecFn", "TypParam", "Projection"}
    \/ t[1] = "Primitive" /\ t[2] \in {"Array", "Slice"}
    \/ t[1] = "Datatype" /\ \E d \in 1..Len(datatypes) :
                               datatypes[d].name = t[2] /\ datatypes[d].ext_equal

\* A datatype of dt's recursion component occurs in the type.
MentionsComponent(typ, dt) ==
    LET sub == SubTyps(typ) IN
    \E n \in 1..Len(sub) :
        /\ sub[n][1] = "Datatype"
        /\ \/ sub[n][2] = dt
           \/ sub[n][2] \in DOMAIN ctx.datatype_graph /\ dt \in ctx.datatype_graph[sub[n][2]]

\* The per-variant ext_equal axioms a step emitted for a variant.
ExtEqualAxiomsFor(datatype, variant) ==
    SelectSeq(NewAxioms,
              LAMBDA c : AxiomQid(c) = variant_ident(datatype.name, variant) \o <<QID_EXT_EQUAL>>)

\* The position of field k of variant v among the fields of all variants.
FieldIndex(datatype, v, k) ==
    Len(Concat([u \in 1..v - 1 |-> datatype.variants[u].fields])) + k

\* The conjuncts of the antecedent of an ext_equal axiom.
ExtEqualPre(c) == AxiomBody(c)[2][2]

\* The number of antecedent conjuncts before the field equalities.
FieldOffset(datatype) == IF Len(datatype.variants) > 1 THEN 4 ELSE 2

\* e is ext_eq(deep, _, .. w(..x..) .., .. w(..y..) ..).
IsExtEqOfField(e, w) ==
    /\ e[1] = "apply"
    /\ e[2] = <<"ext_eq">>
    /\ Len(e[3]) = 4
    /\ e[3][1] = deep_var
    /\ w \in Heads(e[3][3]) /\ VarsOf(e[3][3]) = {"x"}
    /\ w \in Heads(e[3][4]) /\ VarsOf(e[3][4]) = {"y"}

\* e is w(..x..) == w(..y..).
IsPlainEqOfField(e, w) ==
    /\ e[1] = "="
    /\ e[2][1] = "apply" /\ e[2][2] = w /\ VarsOf(e[2]) = {"x"}
    /\ e[3][1] = "apply" /\ e[3][2] = w /\ VarsOf(e[3]) = {"y"}

\* C14: in the per-variant ext_equal axiom a field is compared with
\* ext_eq(deep, fieldType, x.f, y.f) if and only if its type needs
\* extensional equality and mentions no datatype of the enclosing datatype's
\* recursion component; every other field is compared with plain equality.
C14_EqualityLoopAvoidance ==
    [][EncodesExtEqual =>
        \A v \in 1..Len(datatypes[i].variants) :
            LET variant == datatypes[i].variants[v]
                axs == ExtEqualAxiomsFor(datatypes[i], variant.name)
            IN  /\ Len(axs) = 1
                /\ \A k \in 1..Len(variant.fields) :
                     LET e == ExtEqualPre(axs[1])[FieldOffset(datatypes[i]) + k]
                         w == NewFields[FieldIndex(datatypes[i], v, k)].name
                     IN  IF /\ NeedsExtensionalEquality(variant.fields[k].typ)
                            /\ ~MentionsComponent(variant.fields[k].typ, datatypes[i].name)
                         THEN /\ IsExtEqOfField(e, w)
                              /\ e[3][2] = typ_to_id(variant.fields[k].typ)
                         ELSE IsPlainEqOfField(e, w)]_vars

\* The Cons axiom of a transparent ext_equal List<T> is in the bucket: its
\* head is compared with ext_eq, its tail with ==.
C14_Witness ==
    /\ pc # "aborted"
    /\ \E a \in 1..Len(axiom_commands) :
          LET c == axiom_commands[a] IN
          /\ AxiomQid(c) = variant_ident(ListPath, "Cons") \o <<QID_EXT_EQUAL>>
          /\ ExtEqualPre(c)[5][1] = "apply"
          /\ ExtEqualPre(c)[6][1] = "="

----------------------------------------------------------------------------
\* e is the variable, or the unbox function of a type applied to it.
IsUnboxedVar(e, var) ==
    \/ e = ident_var(var)
    \/ e[1] = "apply" /\ IsUnboxName(e[2]) /\ e[3] = <<ident_var(var)>>

\* e is the discriminator of the variant applied to the unboxed variable.
IsDiscriminated(e, datatype, variant, var) ==
    /\ e[1] = "apply"
    /\ e[2] = is_variant_ident(datatype.name, variant.name)
    /\ Len(e[3]) = 1
    /\ IsUnboxedVar(e[3][1], var)

\* c is the ext_equal axiom of variant v of the datatype:
\*   has_type(x, T) /\ has_type(y, T) /\ [is_v(x) /\ is_v(y)] /\ feq1 /\ .. /\ feqn
\*     ==> ext_eq(deep, T, x, y), triggered on the conclusion only.
IsExtEqualAxiomOf(c, datatype, v) ==
    LET variant == datatype.variants[v]
        pre == ExtEqualPre(c)
        off == FieldOffset(datatype)
        T == ident_apply(NewTokens[1].name,
                         [k \in 1..Len(datatype.typ_params) |-> ident_var(datatype.typ_params[k])])
        concl == str_apply("ext_eq", <<deep_var, T, x_var, y_var>>)
    IN  /\ AxiomQid(c) = variant_ident(datatype.name, variant.name) \o <<QID_EXT_EQUAL>>
        /\ AxiomBody(c)[1] = "=>"
        /\ AxiomBody(c)[2][1] = "and"
        /\ Len(pre) = off + Len(variant.fields)
        /\ pre[1] = expr_has_type(x_var, T)
        /\ pre[2] = expr_has_type(y_var, T)
        /\ Len(datatype.variants) > 1 =>
              /\ IsDiscriminated(pre[3], datatype, variant, "x")
              /\ IsDiscriminated(pre[4], datatype, variant, "y")
        /\ \A k \in 1..Len(variant.fields) :
              LET w == NewFields[FieldIndex(datatype, v, k)].name IN
              IsExtEqOfField(pre[off + k], w) \/ IsPlainEqOfField(pre[off + k], w)
        /\ AxiomBody(c)[3] = concl
        /\ AxiomTrigs(c) = <<concl>>

\* C15: encoding a datatype emits exactly one ext_equal axiom per variant,
\* in order, if the datatype is transparent and flagged ext_equal, and none
\* otherwise; the antecedent is has_type(x, T), has_type(y, T), the variant's
\* discriminator on unboxed x and unboxed y only when the type has more than
\* one variant, then one equality per field in declaration order; the
\* conclusion and only trigger are ext_eq(deep, T, x, y).
C15_ExtEqualPerVariant ==
    [][Encodes =>
        LET datatype == datatypes[i]
            axs == NewAxiomsOfKind(QID_EXT_EQUAL)
        IN  IF is_datatype_transparent(ctx.module, datatype) /\ datatype.ext_equal
            THEN /\ Len(axs) = Len(datatype.variants)
                 /\ \A v \in 1..Len(datatype.variants) : IsExtEqualAxiomOf(axs[v], datatype, v)
            ELSE axs = <<>>]_vars

\* The axioms of both variants of a transparent ext_equal List<T> are in the
\* bucket: the antecedent of Nil has the two discriminators and no field
\* equality, the one of Cons two field equalities more.
C15_Witness ==
    /\ pc # "aborted"
    /\ \E a \in 1..Len(axiom_commands) :
          /\ AxiomQid(axiom_commands[a]) = variant_ident(ListPath, "Nil") \o <<QID_EXT_EQUAL>>
          /\ Len(ExtEqualPre(axiom_commands[a])) = 4
          /\ ExtEqualPre(axiom_commands[a])[3][2] = is_variant_ident(ListPath, "Nil")
    /\ \E a \in 1..Len(axiom_commands) :
          /\ AxiomQid(axiom_commands[a]) = variant_ident(ListPath, "Cons") \o <<QID_EXT_EQUAL>>
          /\ Len(ExtEqualPre(axiom_commands[a])) = 6

----------------------------------------------------------------------------
\* The closure family of arity n, written from n alone.

\* The step encodes a closure family and does not abort.
EncodesFamily == pc = "spec_fn" /\ pc' # "aborted"

FamilyPath(n) == prefix_spec_fn_type(n)
FamilyName(n) == path_as_friendly_rust_name(FamilyPath(n))
FamilyTparams(n) == [k \in 1..n + 1 |-> prefix_tuple_param(k - 1)]
FamilyTyp == TSpecFn(<<>>, TBool)
\* SpecFn_N(T1..TN, TRet)
FamilyId(n) ==
    ident_apply(prefix_type_id(FamilyPath(n)),
                [k \in 1..n + 1 |-> ident_var(FamilyTparams(n)[k])])
FamilyArgs(n) == [k \in 1..n |-> ident_var(FamilyTparams(n)[k])]
\* The membership of each argument in its parameter type.
FamilyArgsHave(n) ==
    [k \in 1..n |-> expr_has_type(FamilyArgs(n)[k], ident_var(FamilyTparams(n)[k]))]
FamilyApp(n) == ApplyFun(x_var, FamilyArgs(n))
FamilyHasApp(n) == expr_has_type(FamilyApp(n), ident_var(FamilyTparams(n)[n + 1]))
\* The membership of the closure value in SpecFn_N(T1..TN, TRet).
FamilyHasBox(n) == expr_has_type(ident_apply(prefix_box(FamilyPath(n)), <<x_var>>), FamilyId(n))
FamilyBoxMkFun(n) == ident_apply(prefix_box(FamilyPath(n)), <<str_apply("mk_fun", <<x_var>>)>>)
FamilyArgParams(n) == [k \in 1..n |-> Par(FamilyTparams(n)[k], TBoxed(FamilyTyp))]
FamilyApplyParams(n) == FamilyArgParams(n) \o <<x_param(FamilyTyp)>>

FamilyConstructorAxiom(n) ==
    LET has == expr_has_type(FamilyBoxMkFun(n), FamilyId(n)) IN
    mk_unnamed_axiom(mk_bind_expr(
        func_bind_trig(FamilyName(n) \o <<QID_CONSTRUCTOR>>, FamilyTparams(n),
                       <<x_param(FamilyTyp)>>, <<has>>),
        mk_implies(
            mk_bind_expr(
                func_bind_trig(FamilyName(n) \o <<QID_CONSTRUCTOR_INNER>>, <<>>,
                               FamilyArgParams(n), <<FamilyHasApp(n)>>),
                mk_implies(mk_and(FamilyArgsHave(n)), FamilyHasApp(n))),
            has)))

FamilyApplyAxiom(n) ==
    mk_unnamed_axiom(mk_bind_expr(
        func_bind_trig(FamilyName(n) \o <<QID_APPLY>>, FamilyTparams(n),
                       FamilyApplyParams(n), <<FamilyApp(n), FamilyHasBox(n)>>),
        mk_implies(mk_and(<<FamilyHasBox(n)>> \o FamilyArgsHave(n)), FamilyHasApp(n))))

\* The identifiers and variables of the family of arity n.
FamilyHeads(n) ==
    {prefix_box(FamilyPath(n)), prefix_unbox(FamilyPath(n)), prefix_type_id(FamilyPath(n)),
     <<"mk_fun">>, <<"height">>, <<"height_lt">>, <<"fun_from_recursive_field">>, <<"ext_eq">>}
FamilyVars(n) == {"x", "y", "deep"} \cup Range(FamilyTparams(n))

\* The names of a sequence of declarations.
NamesOf(cmds) == [k \in 1..Len(cmds) |-> cmds[k].name]

\* C16: encoding the closure family of arity N emits exactly one constructor
\* axiom, one apply axiom and one height axiom, named from N; the type-id
\* token and the box and unbox functions are named from N; and the commands
\* are those of the family written from N alone: they mention no identifier
\* and no variable of anything else in the program.
C16_ClosureFamily ==
    [][EncodesFamily =>
        LET n == ctx.spec_fn_types[i] IN
        /\ NewAxiomsOfKind(QID_CONSTRUCTOR) = <<FamilyConstructorAxiom(n)>>
        /\ NewAxiomsOfKind(QID_APPLY) = <<FamilyApplyAxiom(n)>>
        /\ Len(NewAxiomsOfKind(QID_HEIGHT_APPLY)) = 1
        /\ AxiomQid(NewAxiomsOfKind(QID_HEIGHT_APPLY)[1]) = FamilyName(n) \o <<QID_HEIGHT_APPLY>>
        /\ NamesOf(NewTokens) = <<prefix_type_id(FamilyPath(n))>>
        /\ NamesOf(NewBox) = <<prefix_box(FamilyPath(n)), prefix_unbox(FamilyPath(n))>>
        /\ NewFields = <<>>
        /\ \A a \in 1..Len(NewAxioms) :
              /\ Heads(NewAxioms[a].body) \subseteq FamilyHeads(n)
              /\ VarsOf(NewAxioms[a].body) \subseteq FamilyVars(n)
              /\ SubSeq(AxiomQid(NewAxioms[a]), 1, Len(FamilyName(n))) = FamilyName(n)]_vars

\* The family of arity 1 has been encoded in a program that also has a
\* datatype.
C16_Witness ==
    /\ pc \notin {"spec_fn", "aborted"}
    /\ datatypes # <<>>
    /\ FamilyApplyAxiom(1) \in Range(axiom_commands)

----------------------------------------------------------------------------
\* The apply and the height axiom a step emitted for a closure family.
ApplyAxiom == NewAxiomsOfKind(QID_APPLY)[1]
HeightApplyAxiom == NewAxiomsOfKind(QID_HEIGHT_APPLY)[1]

\* The height axiom has the antecedent, the type parameters and the
\* variables of the apply axiom, and the antecedent is the membership of the
\* closure value followed by the membership of each of the n arguments.
SameGuardAsApply(n) ==
    /\ AxiomBody(HeightApplyAxiom)[1] = "=>"
    /\ AxiomBody(HeightApplyAxiom)[2] = AxiomBody(ApplyAxiom)[2]
    /\ AxiomBody(HeightApplyAxiom)[2] = mk_and(<<FamilyHasBox(n)>> \o FamilyArgsHave(n))
    /\ AxiomTparams(HeightApplyAxiom) = AxiomTparams(ApplyAxiom)
    /\ AxiomParams(HeightApplyAxiom) = AxiomParams(ApplyAxiom)

\* The terms that stand for the closure value itself: x, boxed x, and the
\* boxed closure built from x.
ClosureValues(n) ==
    {x_var, ident_apply(prefix_box(FamilyPath(n)), <<x_var>>),
     str_apply("mk_fun", <<x_var>>), FamilyBoxMkFun(n)}

\* The conclusion is height_lt(height(apply(x, args)), height(v)).
ConcludesBelow(n, v) ==
    AxiomBody(HeightApplyAxiom)[3]
        = str_apply("height_lt", <<str_apply("height", <<FamilyApp(n)>>),
                                   str_apply("height", <<v>>)>>)

\* C17: for every arity the height axiom of a closure family has the
\* antecedent, type parameters and variables of the apply axiom, and
\* concludes height_lt(height(apply(x, args)), height(v)) for the closure
\* value v itself.  The emitted bound is instead
\* height(fun_from_recursive_field(box(mk_fun(x)))).
C17_HeightBelowClosure ==
    [][EncodesFamily =>
        LET n == ctx.spec_fn_types[i] IN
        /\ SameGuardAsApply(n)
        /\ \E v \in ClosureValues(n) : ConcludesBelow(n, v)]_vars

----------------------------------------------------------------------------
\* A field of the datatype has an anonymous closure type under its
\* decorations and boxes.
HasClosureField(datatype) ==
    \E n \in 1..Len(FieldsOf(datatype)) :
        CoreTyp(FieldsOf(datatype)[n].typ)[1] = "AnonymousClosure"

\* The item the pass is about to encode violates an internal invariant: a
\* transparent ext_equal datatype with a field of an anonymous closure
\* type, or a function-identity token for a function that is not in the
\* pruned program.
ViolationMet ==
    \/ /\ pc = "specs"
       /\ is_datatype_transparent(ctx.module, datatypes[i])
       /\ datatypes[i].ext_equal
       /\ HasClosureField(datatypes[i])
    \/ /\ pc = "fndef"
       /\ ctx.fndef_types[i] \notin DOMAIN ctx.func_map

\* The buckets hold commands of items encoded so far.
Accumulated ==
    token_commands \o box_commands \o field_commands \o axiom_commands # <<>>

\* C18: an internal-invariant violation met while encoding an item aborts
\* the whole pass: the step that meets it ends the pass, an aborted pass
\* takes no further step, and it has returned no command stream, whatever
\* the buckets had accumulated.
C18_ViolationAborts ==
    /\ [][/\ ViolationMet => pc' = "aborted"
          /\ pc = "aborted" => pc' = "aborted"]_vars
    /\ [](pc = "aborted" => commands = <<>>)

\* The pass aborted on the function-identity token after it had accumulated
\* the commands of a closure family.
C18_Witness ==
    /\ pc = "aborted"
    /\ Accumulated
    /\ ctx.fndef_types[i] \notin DOMAIN ctx.func_map
    /\ commands = <<>>

----------------------------------------------------------------------------
\* An anonymous closure type occurs somewhere in a field type of the datatype.
MentionsClosure(datatype) ==
    LET sub == FieldSubTyps(datatype) IN
    \E n \in 1..Len(sub) : sub[n][1] = "AnonymousClosure"

\* C19: the pass never returns a command stream for a program one of whose
\* datatypes has an anonymous closure type anywhere in a field type.
C19_ClosureAnywhereIsFatal ==
    (\E d \in 1..Len(datatypes) : MentionsClosure(datatypes[d])) => ~Done

\* C19 as amended: the pass never returns a command stream for a program
\* with a datatype that is transparent and flagged ext_equal and has a field
\* whose type is, under its decorations and boxes, an anonymous closure type.
C19_ClosureFieldOfExtEqualIsFatal ==
    (\E d \in 1..Len(datatypes) :
        /\ is_datatype_transparent(ctx.module, datatypes[d])
        /\ datatypes[d].ext_equal
        /\ HasClosureField(datatypes[d])) => ~Done

\* The pass aborted while encoding the transparent ext_equal datatype Hold,
\* whose field has a closure type.
C19_Witness ==
    /\ pc = "aborted"
    /\ i \in 1..Len(datatypes)
    /\ datatypes[i].name = HoldPath
    /\ datatypes[i].ext_equal
    /\ is_datatype_transparent(ctx.module, datatypes[i])
    /\ HasClosureField(datatypes[i])

----------------------------------------------------------------------------
\* The returned stream as a function of the input alone: what the calls made
\* for the items of the input, taken in input order, contribute to one
\* bucket, and the concatenation of the buckets.

\* The calls of datatype_or_fun_to_air_commands the input asks for.
CallsOfInput ==
    [k \in 1..Len(ctx.spec_fn_types) |-> SpecFnCall(ctx.spec_fn_types[k])]
    \o (IF ctx.uses_array THEN <<ArrayCall>> ELSE <<>>)
    \o [k \in 1..Len(ctx.mono_types) |-> MonotypCall(ctx.mono_types[k])]
    \o Concat([d \in 1..Len(datatypes) |->
          [s \in 1..Len(SpecsOf(datatypes[d].name)) |->
              DatatypeCall(datatypes[d], SpecsOf(datatypes[d].name)[s])]])

SortsOfInput ==
    [k \in 1..Len(ctx.mono_types) |->
        DeclSort(path_to_air_ident(monotyp_to_path(ctx.mono_types[k])))]

AirDatatypesOfInput ==
    Concat([d \in 1..Len(datatypes) |->
        IF is_datatype_transparent(ctx.module, datatypes[d])
        THEN [s \in 1..Len(SpecsOf(datatypes[d].name)) |->
                 datatype_to_air(datatypes[d], SpecsOf(datatypes[d].name)[s])]
        ELSE <<>>])

FnDefTokensOfInput ==
    [k \in 1..Len(ctx.fndef_types) |-> FnDefToken(ctx.fndef_types[k])]

StreamOfInput ==
    LET calls == CallsOfInput IN
    SortsOfInput
    \o <<DeclDatatypes(AirDatatypesOfInput)>>
    \o Concat([k \in 1..Len(calls) |-> calls[k].field])
    \o Concat([k \in 1..Len(calls) |-> calls[k].token]) \o FnDefTokensOfInput
    \o Concat([k \in 1..Len(calls) |-> calls[k].box])
    \o Concat([k \in 1..Len(calls) |-> calls[k].axiom])
    \o array_commands
    \o strslice_commands

----------------------------------------------------------------------------
\* A sharded pass: the calls of the loop over the datatypes (lines 788-810)
\* are made one (datatype, specialization) pair at a time in any order, each
\* on the buckets of lines 674-679; everything else is done as the pass does
\* it.  The AIR datatypes of a datatype are pushed ahead of its first call.

Pairs ==
    {p \in (1..Len(datatypes)) \X (1..MaxSpecs + 1) :
        p[2] <= Len(SpecsOf(datatypes[p[1]].name))}

\* The buckets of the sequential pass, computed from the input.
BucketsOfInput ==
    LET calls == CallsOfInput IN
    [field |-> Concat([k \in 1..Len(calls) |-> calls[k].field]),
     token |-> Concat([k \in 1..Len(calls) |-> calls[k].token]) \o FnDefTokensOfInput,
     box |-> Concat([k \in 1..Len(calls) |-> calls[k].box]),
     axiom |-> Concat([k \in 1..Len(calls) |-> calls[k].axiom])]

ShardInit ==
    /\ Init
    /\ ~ctx.uses_array
    /\ ~UsesStrSlice
    /\ ctx.func_map = FuncMap
    /\ Cardinality(Pairs) <= MaxPairs

\* The call for one pair that has not been encoded yet.
ShardStep ==
    /\ pc = "datatypes"
    /\ \E p \in Pairs \ encoded :
         LET datatype == datatypes[p[1]]
             specs == SpecsOf(datatype.name)
             head == /\ is_datatype_transparent(ctx.module, datatype)
                     /\ \A q \in encoded : q[1] # p[1]
         IN  IF \/ DatatypePanics(datatype, specs[p[2]])
                \/ head /\ \E k \in 1..Len(specs) : datatype_to_air_panics(datatype, specs[k])
             THEN Abort /\ UNCHANGED <<transparent_air_datatypes, encoded>>
             ELSE /\ transparent_air_datatypes' =
                        IF head
                        THEN transparent_air_datatypes
                             \o [k \in 1..Len(specs) |-> datatype_to_air(datatype, specs[k])]
                        ELSE transparent_air_datatypes
                  /\ Emit(DatatypeCall(datatype, specs[p[2]]))
                  /\ encoded' = encoded \cup {p}
                  /\ IF encoded' = Pairs
                     THEN Goto("fndef", 1, 1)
                     ELSE UNCHANGED <<pc, i, j>>
    /\ UNCHANGED <<rest, inputs, opaque_sort_commands, commands>>

ShardNext ==
    \/ SpecFnStep
    \/ ArrayStep
    \/ MonotypStep
    \/ ShardStep
    \/ FnDefStep
    \/ Merge

ShardSpec == ShardInit /\ [][ShardNext]_vars

\* One sequence holds the elements of the other, each as often.
SameElements(s, t) ==
    /\ Len(s) = Len(t)
    /\ \A x \in Range(s) \cup Range(t) :
          Cardinality({k \in 1..Len(s) : s[k] = x}) = Cardinality({k \in 1..Len(t) : t[k] = x})

IsPrefix(s, t) == Len(s) <= Len(t) /\ SubSeq(t, 1, Len(s)) = s

\* C21: a call for one pair only appends to the four buckets, what the
\* other pairs contributed stays as it is; and in whatever order the pairs
\* are encoded, a finished pass holds in each bucket the commands the
\* sequential pass holds there, and its merged stream has the sorts, the
\* datatype group, the field functions, the type-id tokens, the boxing
\* functions and the axioms in this order.
C21_OrderIndependent ==
    /\ [][pc = "datatypes" /\ pc' # "aborted" =>
            /\ IsPrefix(field_commands, field_commands')
            /\ IsPrefix(token_commands, token_commands')
            /\ IsPrefix(box_commands, box_commands')
            /\ IsPrefix(axiom_commands, axiom_commands')]_vars
    /\ [](Done =>
            /\ LET b == BucketsOfInput
               IN  /\ SameElements(field_commands, b.field)
                   /\ SameElements(token_commands, b.token)
                   /\ SameElements(box_commands, b.box)
                   /\ SameElements(axiom_commands, b.axiom)
            /\ \A a \in 1..Len(commands) - 1 : Rank(commands[a]) <= Rank(commands[a + 1]))

\* A finished pass that encoded its pairs in another order than the
\* sequential pass does.
C21_Witness ==
    /\ Done
    /\ Cardinality(encoded) >= 2
    /\ axiom_commands # BucketsOfInput.axiom
    /\ field_commands # BucketsOfInput.field

----------------------------------------------------------------------------
\* The field invariant axioms a step emitted for the field behind wrapper w.
FieldInvariantAxiomsFor(w) ==
    SelectSeq(NewAxioms, LAMBDA c : AxiomQid(c) = w \o <<QID_INVARIANT>>)

\* The type of field k of a variant under a specialization: the type the
\* specialization has at that position, else the declared one.
FieldTypUnder(spec, variant, k) ==
    IF k \in DOMAIN spec.typs THEN spec.typs[k] ELSE variant.fields[k].typ

\* c is 'forall typs, x. has_type(x, T(typs)) ==> inv(w(unbox(x)))' with the
\* one trigger {w(unbox(x)), has_type(x, T(typs))}, unbox being the identity
\* when the step declares none.
IsFieldInvariantAxiomOf(c, datatype, typ, w) ==
    LET has == expr_has_type(x_var,
                   ident_apply(NewTokens[1].name,
                               [k \in 1..Len(datatype.typ_params) |->
                                   ident_var(datatype.typ_params[k])]))
        unboxes == SelectSeq(NewBox, LAMBDA d : IsUnboxName(d.name))
        unboxed == IF NewBox = <<>> THEN x_var ELSE ident_apply(unboxes[1].name, <<x_var>>)
        term == ident_apply(w, <<unboxed>>)
    IN  /\ AxiomBody(c) = <<"=>", has, typ_invariant(typ, term)>>
        /\ AxiomTrigs(c) = <<term, has>>
        /\ AxiomTparams(c) = datatype.typ_params

\* C26: encoding a datatype in datatypes_with_invariant emits, for every
\* field whose type under the specialization (the specialization's type at
\* the field's position, else the declared type) has a type invariant,
\* exactly one axiom 'forall typs, x. has_type(x, T(typs)) ==>
\* inv_f(field(unbox(x)))' with the single trigger made of the unboxed field
\* term and has_type(x, T(typs)); and no field invariant axiom for any other
\* field.
C26_FieldInvariants ==
    [][(Encodes /\ datatypes[i].name \in ctx.datatypes_with_invariant) =>
          LET datatype == datatypes[i]
              spec == SpecsOf(datatype.name)[j]
          IN  \A v \in 1..Len(datatype.variants) :
                \A k \in 1..Len(datatype.variants[v].fields) :
                   LET w == NewFields[FieldIndex(datatype, v, k)].name
                       typ == FieldTypUnder(spec, datatype.variants[v], k)
                       axs == FieldInvariantAxiomsFor(w)
                   IN  IF typ_invariant(typ, x_var) # None
                       THEN /\ Len(axs) = 1
                            /\ IsFieldInvariantAxiomOf(axs[1], datatype, typ, w)
                       ELSE axs = <<>>]_vars

\* A datatype with refinements has been encoded under a specialization that
\* gives a field with a declared invariant a type without one, and under
\* one that keeps a field with an invariant.
C26_Witness ==
    /\ Done
    /\ \E d \in 1..Len(datatypes) :
          /\ datatypes[d].name \in ctx.datatypes_with_invariant
          /\ \E s \in 1..Len(SpecsOf(datatypes[d].name)) :
             \E v \in 1..Len(datatypes[d].variants) :
             \E k \in 1..Len(datatypes[d].variants[v].fields) :
                /\ typ_invariant(datatypes[d].variants[v].fields[k].typ, x_var) # None
                /\ typ_invariant(FieldTypUnder(SpecsOf(datatypes[d].name)[s],
                                               datatypes[d].variants[v], k), x_var) = None
          /\ \E a \in 1..Len(commands) :
                /\ IsAxiom(commands[a])
                /\ QidKind(commands[a]) = QID_INVARIANT
                /\ AxiomQid(commands[a])[1] = datatypes[d].name[1]

----------------------------------------------------------------------------
\* The constructor axiom a step emitted for a closure family, and the nested
\* quantifier that is its antecedent.
FamilyConstructor == NewAxiomsOfKind(QID_CONSTRUCTOR)[1]
InnerForall(c) == AxiomBody(c)[2]
InnerTrigs(c) == InnerForall(c)[2][5]

\* c is '(forall args. memberships ==> has_type(apply(x, args), TRet)) ==>
\* has_type(box(mk_fun(x)), SpecFn_N(..))' with the outer quantifier
\* triggered on its conclusion alone.
HasConstructorForm(c, n) ==
    /\ AxiomBody(c)[1] = "=>"
    /\ InnerForall(c)[1] = "forall"
    /\ InnerForall(c)[2][3] = <<>>
    /\ InnerForall(c)[2][4] = FamilyArgParams(n)
    /\ InnerForall(c)[3] = <<"=>", <<"and", FamilyArgsHave(n)>>, FamilyHasApp(n)>>
    /\ AxiomBody(c)[3] = expr_has_type(FamilyBoxMkFun(n), FamilyId(n))
    /\ AxiomParams(c) = <<x_param(FamilyTyp)>>
    /\ AxiomTrigs(c) = <<AxiomBody(c)[3]>>

\* C27 as stated: the constructor axiom of every closure family has the form
\* above, and its inner quantifier is triggered on the application
\* apply(x, args).
C27_InnerTriggeredOnApplication ==
    [][EncodesFamily =>
          /\ HasConstructorForm(FamilyConstructor, ctx.spec_fn_types[i])
          /\ InnerTrigs(FamilyConstructor) = <<FamilyApp(ctx.spec_fn_types[i])>>]_vars

\* C27: the constructor axiom of every closure family has the form above,
\* the outer quantifier triggered only on has_type(box(mk_fun(x)),
\* SpecFn_N(..)), and its inner quantifier over the N arguments is triggered
\* on the membership term of the application, has_type(apply(x, args), TRet).
C27_InnerTriggeredOnMembership ==
    [][EncodesFamily =>
          /\ HasConstructorForm(FamilyConstructor, ctx.spec_fn_types[i])
          /\ InnerTrigs(FamilyConstructor) = <<FamilyHasApp(ctx.spec_fn_types[i])>>]_vars

\* The constructor axioms of the families of arity 0 and of an arity above 0
\* are in the buckets.
C27_Witness ==
    /\ pc \notin {"spec_fn", "aborted"}
    /\ \E a \in 1..Len(axiom_commands), b \in 1..Len(axiom_commands) :
          /\ AxiomQid(axiom_commands[a]) = FamilyName(0) \o <<QID_CONSTRUCTOR>>
          /\ InnerForall(axiom_commands[a])[2][4] = <<>>
          /\ AxiomQid(axiom_commands[b]) = FamilyName(MaxArity) \o <<QID_CONSTRUCTOR>>
          /\ Len(InnerForall(axiom_commands[b])[2][4]) = MaxArity

----------------------------------------------------------------------------
\* The specializations the table requires of a datatype.
Required(dt) == IF dt \in DOMAIN specializations THEN specializations[dt] ELSE <<>>

\* The path p is the path of the datatype, mangled or not.
IsPathOf(p, dt) == Len(p) >= Len(dt) /\ SubSeq(p, 1, Len(dt)) = dt

\* The type-id tokens of the encodings of a datatype, by position in the
\* token bucket: every encoding of a datatype declares one.
TokensOf(dt) ==
    {a \in 1..Len(token_commands) :
        /\ token_commands[a].name[1] = "TYPE%"
        /\ IsPathOf(Tail(token_commands[a].name), dt)}

\* The entries of the grouped datatype declaration that are of a datatype.
GroupEntriesOf(dt) ==
    LET group == SelectSeq(commands, LAMBDA c : c.kind = "Datatypes")[1].body
    IN  {a \in 1..Len(group) : IsPathOf(group[a][1], dt)}

\* C28: a datatype with no entry or an empty entry in the specialization
\* table is encoded exactly once, under its unmangled path and, when it is
\* transparent, with its box function declared; a datatype with k >= 1 required specializations is encoded exactly k times and never
\* under its unmangled path; a transparent datatype has one entry per
\* encoding in the grouped datatype declaration and a non-transparent
\* datatype has none.
C28_OncePerSpecialization ==
    Done =>
        \A d \in 1..Len(datatypes) :
            LET dt == datatypes[d].name
                generic == {a \in TokensOf(dt) : token_commands[a].name = prefix_type_id(dt)}
            IN  /\ Required(dt) = <<>> =>
                      /\ Cardinality(TokensOf(dt)) = 1 /\ generic = TokensOf(dt)
                      /\ is_datatype_transparent(ctx.module, datatypes[d]) =>
                            \E b \in 1..Len(box_commands) :
                               box_commands[b].name = prefix_box(dt)
                /\ Required(dt) # <<>> =>
                      Cardinality(TokensOf(dt)) = Len(Required(dt)) /\ generic = {}
                /\ Cardinality(GroupEntriesOf(dt)) =
                      IF is_datatype_transparent(ctx.module, datatypes[d])
                      THEN Cardinality(TokensOf(dt)) ELSE 0

\* A finished run over a transparent datatype with several required
\* specializations and a datatype that is not transparent.
C28_Witness ==
    /\ Done
    /\ \E d \in 1..Len(datatypes) :
          /\ Len(Required(datatypes[d].name)) >= 2
          /\ is_datatype_transparent(ctx.module, datatypes[d])
          /\ Cardinality(GroupEntriesOf(datatypes[d].name)) >= 2
    /\ \E d \in 1..Len(datatypes) :
          /\ ~is_datatype_transparent(ctx.module, datatypes[d])
          /\ Cardinality(TokensOf(datatypes[d].name)) = 1

----------------------------------------------------------------------------
\* The step makes the call for a closure family, the array type or a
\* monomorphized type.
EncodesPrimitive == pc \in {"spec_fn", "array", "mono"}

\* C29: no call for a closure family, the array type or a monomorphized type
\* stops the pass: none reaches the assertion on add_height, the assertion
\* on variants or an underflow of tparams.len() - 1; such a call emits no
\* height axiom and nothing per variant or field, and a family of arity N is
\* encoded with N + 1 type parameters, so with N arguments.
C29_NoInternalError ==
    [][EncodesPrimitive =>
          /\ pc' # "aborted"
          /\ NewFields = <<>>
          /\ NewAxiomsOfKind(QID_HEIGHT) = <<>>
          /\ NewAxiomsOfKind(QID_ACCESSOR) = <<>>
          /\ pc = "spec_fn" =>
                /\ Len(AxiomTparams(FamilyConstructor)) = ctx.spec_fn_types[i] + 1
                /\ Len(InnerForall(FamilyConstructor)[2][4]) = ctx.spec_fn_types[i]]_vars

\* A finished run that encoded the closure family of arity 0, the array
\* type and a monomorphized type.
C29_Witness ==
    /\ Done
    /\ ctx.spec_fn_types # <<>>
    /\ ctx.spec_fn_types[1] = 0
    /\ ctx.uses_array
    /\ ctx.mono_types # <<>>
    /\ \E a \in 1..Len(axiom_commands) :
          AxiomQid(axiom_commands[a]) = FamilyName(0) \o <<QID_CONSTRUCTOR>>

----------------------------------------------------------------------------
\* The names an axiom takes from the grouped datatype declaration.

\* The constructors and the selectors (identifier, sort) that the grouped
\* datatype declaration of the stream declares.
GroupBody == SelectSeq(commands, LAMBDA c : c.kind = "Datatypes")[1].body
GroupConstructors ==
    UNION {{GroupBody[d][2][v][1] : v \in 1..Len(GroupBody[d][2])} :
              d \in 1..Len(GroupBody)}
GroupSelectors ==
    UNION {UNION {Range(GroupBody[d][2][v][2]) : v \in 1..Len(GroupBody[d][2])} :
              d \in 1..Len(GroupBody)}

\* The constructor applied in the conclusion has_type(box(ctor(args)), T) of
\* a constructor invariant axiom; box is the identity when none is declared.
ConstructorNamed(c) ==
    LET e == AxiomTrigs(c)[1][2]
    IN  IF IsBoxName(e[2]) THEN e[3][1][2] ELSE e[2]

IsDiscriminator(n) == n # <<>> /\ n[1] = "is-"

\* C30: every internal selector named in a bridging axiom, every constructor
\* named in a constructor invariant axiom and every variant discriminator
\* named in a height or extensional equality axiom is declared by the grouped
\* datatype declaration of the same stream under the same identifier, the
\* selector with the result sort of the wrapper function of its field.
C30_NamesDeclaredByGroup ==
    Done =>
        \A a \in 1..Len(axiom_commands) :
            LET c == axiom_commands[a] IN
            /\ QidKind(c) = QID_ACCESSOR =>
                  \A f \in 1..Len(field_commands) :
                      field_commands[f].name = AxiomBody(c)[2][2] =>
                          <<AxiomBody(c)[3][2], field_commands[f].sig[2]>> \in GroupSelectors
            /\ (QidKind(c) = QID_CONSTRUCTOR /\ AxiomQid(c)[1] # "fun%") =>
                  ConstructorNamed(c) \in GroupConstructors
            /\ QidKind(c) \in {QID_HEIGHT, QID_EXT_EQUAL} =>
                  \A h \in Heads(c.body) :
                      IsDiscriminator(h) => Tail(h) \in GroupConstructors

----------------------------------------------------------------------------
\* vstd::raw_ptr: one PointsTo<T> and the calls ptr_mut_write, ptr_mut_read
\* and PointsTo::leak_contents made with it.  The functions are external
\* bodies: a call is made when its requires clause holds and leaves what its
\* ensures clause says.

\* The most values of T, and the most calls of one run.
MaxValue == 1
MaxCalls == 4

Values == 0..MaxValue
Ptrs == {"p", "q"}

\* MemContents<T>.
Uninit == <<"Uninit">>
MemInit(v) == <<"Init", v>>
is_init(p) == p.opt_value[1] = "Init"
is_uninit(p) == p.opt_value[1] = "Uninit"
value(p) == p.opt_value[2]

\* PointsToRaw::into_typed: the permission starts uninitialized.
PointsToInit ==
    /\ PassIdle /\ RawIdle /\ LayoutIdle /\ DeriveIdle
    /\ \E ptr \in Ptrs : perm = [ptr |-> ptr, opt_value |-> Uninit]
    /\ log = <<>>

\* A faulty read: the value is copied out and the memory stays initialized.
ptr_mut_read_copy ==
    /\ Len(log) < MaxCalls
    /\ \E ptr \in Ptrs :
         /\ perm.ptr = ptr
         /\ is_init(perm)
         /\ perm' = [ptr |-> ptr, opt_value |-> perm.opt_value]
         /\ log' = Append(log, <<"ptr_mut_read", value(perm)>>)
    /\ UNCHANGED <<pass_vars, raw_vars, layout_vars, derive_vars>>

ptr_mut_write ==
    /\ Len(log) < MaxCalls
    /\ \E ptr \in Ptrs, v \in Values :
         /\ perm.ptr = ptr
         /\ is_uninit(perm)
         /\ perm' = [ptr |-> ptr, opt_value |-> MemInit(v)]
         /\ log' = Append(log, <<"ptr_mut_write", v>>)
    /\ UNCHANGED <<pass_vars, raw_vars, layout_vars, derive_vars>>

ptr_mut_read ==
    /\ Len(log) < MaxCalls
    /\ \E ptr \in Ptrs :
         /\ perm.ptr = ptr
         /\ is_init(perm)
         /\ perm' = [ptr |-> ptr, opt_value |-> Uninit]
         /\ log' = Append(log, <<"ptr_mut_read", value(perm)>>)
    /\ UNCHANGED <<pass_vars, raw_vars, layout_vars, derive_vars>>

leak_contents ==
    /\ Len(log) < MaxCalls
    /\ perm' = [ptr |-> perm.ptr, opt_value |-> Uninit]
    /\ log' = Append(log, <<"leak_contents">>)
    /\ UNCHANGED <<pass_vars, raw_vars, layout_vars, derive_vars>>

PointsToNext ==
    \/ ptr_mut_write
    \/ ptr_mut_read
    \/ leak_contents

PointsToSpec == PointsToInit /\ [][PointsToNext]_vars

\* The positions of the calls of one function in a log.
CallsOf(l, f) == {k \in 1..Len(l) : l[k][1] = f}
Max(S) == CHOOSE x \in S : \A y \in S : y <= x

\* C22: a ptr_mut_write is made only with an uninitialized permission and
\* leaves it Init(v); a ptr_mut_read is made only with an initialized one,
\* returns the value of the most recent write, which no read has returned
\* since, and leaves the permission uninitialized; leak_contents leaves it
\* uninitialized; and no call changes the pointer of the permission.
C22_PermissionProtocol ==
    [][LET call == log'[Len(log')]
           writes == CallsOf(log, "ptr_mut_write")
           reads == CallsOf(log, "ptr_mut_read")
       IN  /\ perm'.ptr = perm.ptr
           /\ call[1] = "ptr_mut_write" =>
                 is_uninit(perm) /\ perm'.opt_value = MemInit(call[2])
           /\ call[1] = "ptr_mut_read" =>
                 /\ is_init(perm) /\ is_uninit(perm')
                 /\ writes # {}
                 /\ call[2] = log[Max(writes)][2]
                 /\ \A r \in reads : r < Max(writes)
           /\ call[1] = "leak_contents" => is_uninit(perm')]_vars

\* A value was written, leaked, another written and read back.
C22_Witness ==
    /\ Len(log) = 4
    /\ log[1][1] = "ptr_mut_write" /\ log[2][1] = "leak_contents"
    /\ log[3][1] = "ptr_mut_write" /\ log[4] = <<"ptr_mut_read", log[3][2]>>
    /\ log[1][2] # log[3][2]
    /\ is_uninit(perm)

----------------------------------------------------------------------------
\* vstd::raw_ptr: the PointsToRaw permissions a proof holds, and the calls
\* PointsToRaw::empty, split and join.  The functions are external bodies: a
\* call is made when its requires clause holds and returns what its ensures
\* clause says.  A permission is tracked: split and join consume what they
\* are given.

\* The highest address, and the most permissions held at a time.
MaxAddr == 2
MaxHeld == 2

Addrs == 0..MaxAddr
Provenances == {"a", "b"}
Slots == 1..MaxHeld

PointsToRaw(provenance, dom) == [provenance |-> provenance, dom |-> dom]

\* A faulty split: the second permission keeps the whole domain.
split_keeping_dom(self, range) ==
    <<PointsToRaw(self.provenance, range), PointsToRaw(self.provenance, self.dom)>>

\* A faulty join: the domain of the second permission is lost.
join_losing_other(self, other) == PointsToRaw(self.provenance, self.dom)

empty(provenance) == PointsToRaw(provenance, {})

split(self, range) ==
    <<PointsToRaw(self.provenance, range),
      PointsToRaw(self.provenance, self.dom \ range)>>

join(self, other) == PointsToRaw(self.provenance, self.dom \cup other.dom)

\* One permission, as allocate or PointsTo::into_raw returns it.
RawInit ==
    /\ PassIdle /\ PointsToIdle /\ LayoutIdle /\ DeriveIdle
    /\ \E provenance \in Provenances, dom \in SUBSET Addrs :
         held = [s \in Slots |-> IF s = 1 THEN PointsToRaw(provenance, dom) ELSE None]
    /\ last = <<>>

EmptyCall ==
    /\ \E provenance \in Provenances, s \in Slots :
         /\ held[s] = None
         /\ held' = [held EXCEPT ![s] = empty(provenance)]
         /\ last' = [call |-> "empty", res |-> s]
    /\ UNCHANGED <<pass_vars, points_to_vars, layout_vars, derive_vars>>

SplitCall ==
    /\ \E s \in Slots, t \in Slots :
         /\ held[s] # None
         /\ held[t] = None
         /\ \E range \in SUBSET Addrs :
              /\ range \subseteq held[s].dom
              /\ held' = [held EXCEPT ![s] = split(held[s], range)[1],
                                      ![t] = split(held[s], range)[2]]
              /\ last' = [call |-> "split", self |-> held[s], range |-> range,
                          res |-> <<s, t>>]
    /\ UNCHANGED <<pass_vars, points_to_vars, layout_vars, derive_vars>>

JoinCall ==
    /\ \E s \in Slots, t \in Slots :
         /\ s # t
         /\ held[s] # None
         /\ held[t] # None
         /\ held[s].provenance = held[t].provenance
         /\ held' = [held EXCEPT ![s] = join(held[s], held[t]), ![t] = None]
         /\ last' = [call |-> "join", self |-> held[s], other |-> held[t], res |-> s,
                     args |-> <<s, t>>]
    /\ UNCHANGED <<pass_vars, points_to_vars, layout_vars, derive_vars>>

RawNext ==
    \/ EmptyCall
    \/ SplitCall
    \/ JoinCall

RawSpec == RawInit /\ [][RawNext]_vars

\* C23: a split of p at a range within p.dom() returns permissions with the
\* domains range and p.dom() minus range, which are disjoint and together
\* p.dom(), both with the provenance of p; the join of the two returns a
\* permission with the domain and the provenance of p; a join is made only
\* of permissions of equal provenance; and an empty permission has the empty
\* domain.
C23_SplitJoinRoundTrip ==
    [][/\ last'.call = "split" =>
            LET p == last'.self
                res0 == held'[last'.res[1]]
                res1 == held'[last'.res[2]]
            IN  /\ p = held[last'.res[1]]
                /\ last'.range \subseteq p.dom
                /\ res0.dom = last'.range
                /\ res1.dom = p.dom \ last'.range
                /\ res0.dom \cap res1.dom = {}
                /\ res0.dom \cup res1.dom = p.dom
                /\ res0.provenance = p.provenance
                /\ res1.provenance = p.provenance
       /\ last'.call = "join" =>
            /\ last'.self.provenance = last'.other.provenance
            /\ (last # <<>> /\ last.call = "split" /\ last.res = last'.args) =>
                  /\ held'[last'.res].dom = last.self.dom
                  /\ held'[last'.res].provenance = last.self.provenance
       /\ last'.call = "empty" => held'[last'.res].dom = {}]_vars

\* A permission over two addresses was split at a proper, non-empty range
\* and the two parts were joined again.
C23_Witness ==
    /\ last # <<>>
    /\ last.call = "join"
    /\ last.self.dom # {}
    /\ last.other.dom # {}
    /\ last.self.dom \cap last.other.dom = {}
    /\ held[last.res].dom = Addrs

----------------------------------------------------------------------------
\* vstd::layout: is_power_2 and valid_layout.  A call of is_power_2 is
\* evaluated one unfolding at a time; valid_layout(size, align) calls
\* is_power_2(align as int).

\* The width of usize.
UsizeBits == 4

USIZE_MAX == 2 ^ UsizeBits - 1
ISIZE_MAX == 2 ^ (UsizeBits - 1) - 1
Usize == 0..USIZE_MAX
\* The integers is_power_2 is called with.
Ints == -(USIZE_MAX + 1)..USIZE_MAX + 1

\* A faulty unfolding: the parity of n is not looked at.
is_power_2_any_parity(n) ==
    IF n <= 0 THEN [ret |-> FALSE]
    ELSE IF n = 1 THEN [ret |-> TRUE]
    ELSE [rec |-> n \div 2]

\* One unfolding of is_power_2(n): the value, or the argument of the
\* recursive call whose value it is.
is_power_2(n) ==
    IF n <= 0 THEN [ret |-> FALSE]
    ELSE IF n = 1 THEN [ret |-> TRUE]
    ELSE IF n % 2 = 0 THEN [rec |-> n \div 2] ELSE [ret |-> FALSE]

LayoutInit ==
    /\ PassIdle /\ PointsToIdle /\ RawIdle /\ DeriveIdle
    /\ \/ \E n \in Ints : layout_call = [fn |-> "is_power_2", n |-> n]
       \/ \E sz \in Usize, al \in Usize :
             layout_call = [fn |-> "valid_layout", size |-> sz, align |-> al]
    /\ pow2_n = IF layout_call.fn = "is_power_2" THEN layout_call.n ELSE layout_call.align
    /\ pow2_ret = None
    /\ layout_ret = None

\* One unfolding of the pending call of is_power_2.
IsPower2Step ==
    /\ pow2_ret = None
    /\ LET r == is_power_2(pow2_n)
       IN  IF "ret" \in DOMAIN r
           THEN pow2_ret' = <<r.ret>> /\ UNCHANGED pow2_n
           ELSE pow2_n' = r.rec /\ UNCHANGED pow2_ret
    /\ UNCHANGED <<layout_call, layout_ret>>
    /\ UNCHANGED <<pass_vars, points_to_vars, raw_vars, derive_vars>>

\* The call returns.
LayoutReturn ==
    /\ pow2_ret # None
    /\ layout_ret = None
    /\ layout_ret' =
          IF layout_call.fn = "is_power_2" THEN pow2_ret
          ELSE <<pow2_ret[1]
                 /\ layout_call.size <= ISIZE_MAX - (ISIZE_MAX % layout_call.align)>>
    /\ UNCHANGED <<layout_call, pow2_n, pow2_ret>>
    /\ UNCHANGED <<pass_vars, points_to_vars, raw_vars, derive_vars>>

LayoutNext ==
    \/ IsPower2Step
    \/ LayoutReturn

\* An evaluation that can go on does go on.
LayoutSpec == LayoutInit /\ [][LayoutNext]_vars /\ WF_vars(LayoutNext)

IsPowerOfTwo(n) == \E k \in 0..UsizeBits + 1 : n = 2 ^ k
HasOddFactor(n) == \E f \in 3..n : f % 2 = 1 /\ n % f = 0
\* The argument is_power_2 was called with.
Pow2Arg == IF layout_call.fn = "is_power_2" THEN layout_call.n ELSE layout_call.align

\* C24: every call of is_power_2 returns, the argument of each recursive
\* call being positive and less than the one before; its value is true
\* exactly when n is 2^k for a k >= 0, so false for n <= 0 and for n > 1
\* with an odd factor above 1; and valid_layout(size, align) is false when
\* align is not a power of two.
C24_IsPower2 ==
    /\ <>(layout_ret # None)
    /\ [][pow2_n' # pow2_n => 0 < pow2_n' /\ pow2_n' < pow2_n]_vars
    /\ [](pow2_ret # None =>
            /\ pow2_ret[1] <=> IsPowerOfTwo(Pow2Arg)
            /\ Pow2Arg <= 0 => ~pow2_ret[1]
            /\ (Pow2Arg > 1 /\ HasOddFactor(Pow2Arg)) => ~pow2_ret[1])
    /\ []((layout_ret # None /\ layout_call.fn = "valid_layout"
           /\ ~IsPowerOfTwo(layout_call.align)) => ~layout_ret[1])

\* is_power_2(8) returned true after three recursive calls, as
\* usize_size_pow2 computes it.
C24_Witness ==
    /\ layout_call = [fn |-> "is_power_2", n |-> 8]
    /\ pow2_n = 1
    /\ layout_ret = <<TRUE>>

----------------------------------------------------------------------------
\* builtin_macros::derive: the derive of the spec trait of PartialOrd for a
\* struct, and the generated spec_partial_cmp applied to two values.

\* The most fields of a struct.
MaxFields == 2

Visibilities == {"Public", "Restricted", "Inherited"}
FieldIdents == <<"a", "b", "c", "d">>
Equal == <<"Some", "Equal">>
\* Option<core::cmp::Ordering>.
Orderings == {None, <<"Some", "Less">>, Equal, <<"Some", "Greater">>}

\* The derive inputs: structs with named fields, tuple structs, and an enum.
DeriveInputs ==
    {[data |-> "Enum", fields |-> <<>>]}
    \cup UNION {{[data |-> "Struct",
                  fields |-> [k \in 1..n |->
                                 [ident |-> IF named THEN <<FieldIdents[k]>> ELSE None,
                                  vis |-> vis[k]]]] :
                    named \in BOOLEAN, vis \in [1..n -> Visibilities]} :
                 n \in 0..MaxFields}

field_name(field, index) ==
    IF field.ident # None THEN <<"Named", field.ident[1]>> ELSE <<"Unnamed", index>>

\* self.#field.spec_partial_cmp(&rhs.#field)
FieldCmp(member) == <<"spec_partial_cmp", member>>

\* The chain of else-if arms over the fields from k on, and the final else.
RECURSIVE PartialOrdArms(_, _)
PartialOrdArms(fields, k) ==
    IF k > Len(fields) THEN <<"expr", Equal>>
    ELSE <<"if", <<"ne", FieldCmp(fields[k]), Equal>>, FieldCmp(fields[k]),
           PartialOrdArms(fields, k + 1)>>

\* A faulty expansion: the arms are generated bottom-to-top.
spec_partial_ord_expand_reversed(c_or_o, fields) ==
    [vis |-> c_or_o, name |-> "spec_partial_cmp",
     body |-> <<"if", <<"expr", FALSE>>, <<"expr", None>>,
                PartialOrdArms([k \in 1..Len(fields) |-> fields[Len(fields) + 1 - k]], 1)>>]

spec_partial_ord_expand(c_or_o, fields) ==
    [vis |-> c_or_o, name |-> "spec_partial_cmp",
     body |-> <<"if", <<"expr", FALSE>>, <<"expr", None>>, PartialOrdArms(fields, 1)>>]

DeriveInit ==
    /\ PassIdle /\ PointsToIdle /\ RawIdle /\ LayoutIdle
    /\ input \in DeriveInputs
    /\ closed_or_open = ""
    /\ spec_func_def = None
    /\ cmps \in [{field_name(input.fields[k], k - 1) : k \in 1..Len(input.fields)}
                    -> Orderings]
    /\ ordering = None

\* spec_trait_expand_for_struct with gen_spec_fun = spec_partial_ord_expand.
spec_trait_expand_for_struct ==
    /\ spec_func_def = None
    /\ IF input.data # "Struct"
       THEN /\ spec_func_def' = <<"panic">>
            /\ UNCHANGED closed_or_open
       ELSE LET fields == [k \in 1..Len(input.fields) |->
                              field_name(input.fields[k], k - 1)]
                closed == \E k \in 1..Len(input.fields) :
                             input.fields[k].vis \in {"Restricted", "Inherited"}
            IN  /\ closed_or_open' = IF closed THEN "closed" ELSE "open"
                /\ spec_func_def' = spec_partial_ord_expand(closed_or_open', fields)
    /\ UNCHANGED <<input, cmps, ordering>>
    /\ UNCHANGED <<pass_vars, points_to_vars, raw_vars, layout_vars>>

\* The value of a generated expression, and the field comparisons that were
\* evaluated on the way.
RECURSIVE EvalSpecFn(_, _)
EvalSpecFn(e, seen) ==
    IF e[1] = "expr" THEN [value |-> e[2], consulted |-> seen]
    ELSE IF e[1] = "spec_partial_cmp" THEN [value |-> cmps[e[2]], consulted |-> Append(seen, e[2])]
    ELSE IF e[1] = "ne"
         THEN LET l == EvalSpecFn(e[2], seen)
              IN  [value |-> l.value # e[3], consulted |-> l.consulted]
    ELSE LET c == EvalSpecFn(e[2], seen)
         IN  IF c.value THEN EvalSpecFn(e[3], c.consulted) ELSE EvalSpecFn(e[4], c.consulted)

\* The generated spec_partial_cmp applied to the two values.
SpecPartialCmp ==
    /\ spec_func_def \notin {None, <<"panic">>}
    /\ ordering = None
    /\ ordering' = EvalSpecFn(spec_func_def.body, <<>>)
    /\ UNCHANGED <<input, closed_or_open, spec_func_def, cmps>>
    /\ UNCHANGED <<pass_vars, points_to_vars, raw_vars, layout_vars>>

DeriveNext ==
    \/ spec_trait_expand_for_struct
    \/ SpecPartialCmp

DeriveSpec == DeriveInit /\ [][DeriveNext]_vars

\* The comparison of the field at a position of the struct.
CmpAt(k) == cmps[field_name(input.fields[k], k - 1)]
\* The positions whose fields do not compare Some(Equal).
Differing == {k \in 1..Len(input.fields) : CmpAt(k) # Equal}
Min(S) == CHOOSE x \in S : \A y \in S : x <= y

\* C25: the generated spec_partial_cmp returns the comparison of the first
\* field, in declaration order, that does not compare Some(Equal), and
\* Some(Equal) when there is none; it evaluates the comparisons of no field
\* after that one; and the function is closed when a field of the struct is
\* not public and open otherwise.
C25_LexicographicOrder ==
    /\ ordering # None =>
          /\ ordering.value = IF Differing = {} THEN Equal ELSE CmpAt(Min(Differing))
          /\ \A k \in 1..Len(input.fields) :
                (Differing # {} /\ k > Min(Differing)) =>
                   \A m \in 1..Len(ordering.consulted) :
                      ordering.consulted[m] # field_name(input.fields[k], k - 1)
    /\ spec_func_def \notin {None, <<"panic">>} =>
          /\ spec_func_def.vis = closed_or_open
          /\ closed_or_open = "closed" <=>
                \E k \in 1..Len(input.fields) : input.fields[k].vis # "Public"
          /\ closed_or_open \in {"closed", "open"}

\* A struct of two fields with a private second field, compared at values
\* whose first fields are equal and whose second fields are not comparable.
C25_Witness ==
    /\ ordering # None
    /\ Len(input.fields) = 2
    /\ input.fields[1].vis = "Public" /\ input.fields[2].vis = "Inherited"
    /\ CmpAt(1) = Equal /\ CmpAt(2) = None
    /\ ordering.value = None
    /\ closed_or_open = "closed"

====
